---- MODULE Spec2Model ----
(***************************************************************************)
(* QuantumShield: the adaptive key rotation service (the in-memory key     *)
(* lifecycle manager and its HTTP handlers), the cron-driven rotation      *)
(* scheduler over the relational tables, the threat monitor, and the       *)
(* clearance-gated read handlers.                                          *)
(*                                                                         *)
(* Time is counted in hours in the key lifecycle manager (every interval   *)
(* of that file is a whole number of hours).  Date.now() is read once per  *)
(* synchronous block: the clock advances only between steps (Tick).        *)
(***************************************************************************)
EXTENDS Integers, Sequences, FiniteSets, TLC

\* ------------------------------------------------------------------ bounds
\* tasks the event loop runs for the key service: requests and timer callbacks
MaxEvents == 3
\* the latest hour the clock reaches
MaxTime == 42
\* cron ticks of the background jobs
MaxTicks == 2
\* database queries that fail
MaxFaults == 1
\* rotations recorded while requests are answered
MaxRotations == 2
\* register and login requests
MaxRequests == 2

\* --------------------------------------------------------- program constants
\* 7 * 24 hours of grace for a superseded key
GraceHours == 168
\* threat-level trigger threshold, in percent (0.7)
ThreatThreshold == 70
\* rolling window of performance metrics
MetricsWindow == 100
\* Node's largest timer delay in ms (2^31 - 1): a longer delay is set to 1 ms
TimeoutMaxMs == 2147483647
MsPerHour == 3600000
\* password.length < 12 (routes/auth.js) and < 8 (AuthenticationService)
MinPasswordLength == 12
ServiceMinPasswordLength == 8

\* ------------------------------------------------------------------ state
VARIABLES
  keys,             \* AdaptiveKeyRotationService.keys: key id -> CryptographicKey
  rotationQueue,    \* AdaptiveKeyRotationService.rotationQueue
  rotationHistory,  \* AdaptiveKeyRotationService.rotationHistory: key id -> dates
  timers,           \* pending setTimeout callbacks of scheduleRotation
  calls,            \* rotateKey invocations suspended at `await this.createKey`
  rotationLog,      \* the console.log lines "Key a rotated to b" of rotateKey
  errorResponses,   \* the error responses (status 4xx, 5xx) the key handlers sent
  nevents,          \* tasks run so far: requests handled and timer callbacks
  now               \* Date.now(), in hours

keyVars == <<keys, rotationQueue, rotationHistory, timers, calls, rotationLog,
             errorResponses, nevents, now>>

VARIABLES systems, history, threats, clock, ticks, faults, runs, crashed, errorLog,
          jsonColumns

schedVars == <<systems, history, threats, clock, ticks, faults, runs, crashed, errorLog,
               jsonColumns>>

VARIABLES db, seenDb, lastRequest

httpVars == <<db, seenDb, lastRequest>>

VARIABLES
  users,         \* the rows of table users
  pending,       \* register requests between their SELECT and their INSERT
  responses,     \* the responses the register and login handlers have sent
  serviceUsers   \* AuthenticationService.users

authVars == <<users, pending, responses, serviceUsers>>

VARIABLES
  scored         \* the last call of the selection engine's securityAnalyzer

engineVars == <<scored>>

vars == <<keyVars, schedVars, httpVars, authVars, engineVars>>

\* ---------------------------------------------------------------- helpers
Range(s) == {s[i] : i \in DOMAIN s}

SeqMax(s) == CHOOSE m \in Range(s) : \A x \in Range(s) : x <= m

\* a find that returns the last element of s that is in among
Find_last(s, among) ==
  IF \E i \in DOMAIN s : s[i] \in Range(among)
  THEN s[CHOOSE i \in DOMAIN s :
           s[i] \in Range(among) /\ \A j \in (i+1)..Len(s) : s[j] \notin Range(among)]
  ELSE "undefined"

\* s.find(x => among.includes(x)): the first element of s that is in among,
\* "undefined" if none
Find(s, among) ==
  IF \E i \in DOMAIN s : s[i] \in Range(among)
  THEN s[CHOOSE i \in DOMAIN s :
           s[i] \in Range(among) /\ \A j \in 1..(i-1) : s[j] \notin Range(among)]
  ELSE "undefined"

\* Array.prototype.slice(-n)
SliceLast(s, n) == IF Len(s) <= n THEN s ELSE SubSeq(s, Len(s) - n + 1, Len(s))

\* String.prototype.includes on strings held as tuples of characters
Includes(s, pat) ==
  \E i \in 0..(Len(s) - Len(pat)) : SubSeq(s, i + 1, i + Len(pat)) = pat

\* ---------------------------------------------------------------- catalog
quantumAlgorithms ==
  << [name |-> "CRYSTALS-Kyber",     keySize |-> <<512, 768, 1024>>,
      purpose |-> "key-exchange", quantumSecurity |-> 128],
     [name |-> "CRYSTALS-Dilithium", keySize |-> <<2420, 3309, 4627>>,
      purpose |-> "signing",      quantumSecurity |-> 128],
     [name |-> "FALCON",             keySize |-> <<897, 1793>>,
      purpose |-> "signing",      quantumSecurity |-> 128],
     [name |-> "SPHINCS+",           keySize |-> <<32, 48, 64>>,
      purpose |-> "signing",      quantumSecurity |-> 256],
     [name |-> "SABER",              keySize |-> <<672, 992, 1312>>,
      purpose |-> "key-exchange", quantumSecurity |-> 128],
     [name |-> "NTRU",               keySize |-> <<699, 930, 1230>>,
      purpose |-> "key-exchange", quantumSecurity |-> 128] >>

\* Object.keys(this.quantumAlgorithms).includes(algorithm)
IsCataloged(algorithm) ==
  \E i \in DOMAIN quantumAlgorithms : quantumAlgorithms[i].name = algorithm

AlgorithmSpec(algorithm) ==
  quantumAlgorithms[CHOOSE i \in DOMAIN quantumAlgorithms :
                      quantumAlgorithms[i].name = algorithm]

\* Object.entries(...).filter(spec.purpose === purpose).map(name), in catalog order
QuantumOptions(purpose) ==
  LET hit == SelectSeq(quantumAlgorithms, LAMBDA s : s.purpose = purpose)
  IN  [i \in DOMAIN hit |-> hit[i].name]

Preferences(purpose) ==
  CASE purpose = "encryption"   -> <<"CRYSTALS-Kyber", "SABER", "NTRU">>
    [] purpose = "signing"      -> <<"CRYSTALS-Dilithium", "FALCON", "SPHINCS+">>
    [] purpose = "key-exchange" -> <<"CRYSTALS-Kyber", "SABER", "NTRU">>
    [] OTHER                    -> QuantumOptions(purpose)

\* selectOptimalAlgorithm without the catalog lookup
selectOptimalAlgorithm_keepCurrent(purpose, currentAlgorithm) == currentAlgorithm

selectOptimalAlgorithm(purpose, currentAlgorithm) ==
  LET quantumOptions == QuantumOptions(purpose)
      found == Find(Preferences(purpose), quantumOptions)
  IN  IF Len(quantumOptions) > 0
      THEN IF found # "undefined" THEN found ELSE quantumOptions[1]
      ELSE currentAlgorithm

selectOptimalKeySize(algorithm, currentSize) ==
  IF ~IsCataloged(algorithm) THEN currentSize
  ELSE SeqMax(AlgorithmSpec(algorithm).keySize)

\* ------------------------------------------------------------- createKey
\* base expiration times, in hours
BaseExpiration(purpose) ==
  CASE purpose = "encryption"   -> 8760
    [] purpose = "signing"      -> 17520
    [] purpose = "key-exchange" -> 720
    [] OTHER                    -> 8760

\* calculateExpirationDate without the halving for legacy algorithms
calculateExpirationDate_sameLifetime(algorithm, purpose, t) ==
  t + BaseExpiration(purpose)

\* baseHours *= 0.5 is exact on every base of the table
calculateExpirationDate(algorithm, purpose, t) ==
  LET baseHours == IF IsCataloged(algorithm) THEN BaseExpiration(purpose)
                   ELSE BaseExpiration(purpose) \div 2
  IN  t + baseHours

getBaseRotationInterval(purpose) ==
  CASE purpose = "encryption"   -> 168
    [] purpose = "signing"      -> 720
    [] purpose = "key-exchange" -> 24
    [] OTHER                    -> 168

getUsageThreshold(purpose) ==
  CASE purpose = "encryption"   -> 1000000
    [] purpose = "signing"      -> 100000
    [] purpose = "key-exchange" -> 10000
    [] OTHER                    -> 100000

\* isEnterpriseOrganization that takes every organization for an enterprise
isEnterpriseOrganization_always(organizationId) == TRUE

isEnterpriseOrganization(organizationId) ==
  \/ Includes(organizationId, <<"e","n","t","e","r","p","r","i","s","e">>)
  \/ Includes(organizationId, <<"c","o","r","p">>)

\* createAdaptiveSchedule that dates the next rotation one interval back
createAdaptiveSchedule_pastRotation(algorithm, purpose, organizationId, t) ==
  [interval |-> getBaseRotationInterval(purpose),
   nextRotation |-> t - getBaseRotationInterval(purpose),
   autoRotate |-> TRUE, adaptiveRotation |-> TRUE, triggers |-> <<>>]

\* baseInterval *= 0.25 is exact on every interval of the table
createAdaptiveSchedule(algorithm, purpose, organizationId, t) ==
  LET baseInterval == IF IsCataloged(algorithm) THEN getBaseRotationInterval(purpose)
                      ELSE getBaseRotationInterval(purpose) \div 4
      base == << [type |-> "time-based",   threshold |-> baseInterval, enabled |-> TRUE],
                 [type |-> "usage-count",  threshold |-> getUsageThreshold(purpose),
                  enabled |-> TRUE],
                 [type |-> "threat-level", threshold |-> ThreatThreshold,
                  enabled |-> TRUE] >>
      triggers == IF isEnterpriseOrganization(organizationId)
                  THEN Append(base, [type |-> "compliance-requirement",
                                     threshold |-> 1, enabled |-> TRUE])
                  ELSE base
  IN  [interval |-> baseInterval, nextRotation |-> t + baseInterval,
       autoRotate |-> TRUE, adaptiveRotation |-> TRUE, triggers |-> triggers]

\* generateKeyId: a timestamp and twelve random characters, taken as fresh
generateKeyId(ks) == Cardinality(DOMAIN ks) + 1

\* the key object createKey builds (lines 35-50)
NewKey(keyId, algorithm, keySize, purpose, organizationId, t) ==
  [id |-> keyId, algorithm |-> algorithm, keySize |-> keySize, purpose |-> purpose,
   createdAt |-> t,
   expiresAt |-> calculateExpirationDate(algorithm, purpose, t),
   rotationSchedule |-> createAdaptiveSchedule(algorithm, purpose, organizationId, t),
   quantumResistant |-> IsCataloged(algorithm),
   usage |-> [operationsCount |-> 0, dataVolume |-> 0, lastUsed |-> t,
              performanceMetrics |-> <<>>]]

\* setTimeout(cb, interval hours): a delay above TimeoutMaxMs fires after 1 ms
TimerDue(interval, t) ==
  IF interval > TimeoutMaxMs \div MsPerHour THEN t ELSE t + interval

\* scheduleRotation(keyId) for the key just stored: the queue and the timer
QueueAfterSchedule(queue, key) ==
  IF key.rotationSchedule.autoRotate /\ key.id \notin Range(queue)
  THEN Append(queue, key.id) ELSE queue

TimersAfterSchedule(tm, key, t) ==
  IF key.rotationSchedule.autoRotate
  THEN tm \cup {[keyId |-> key.id, due |-> TimerDue(key.rotationSchedule.interval, t)]}
  ELSE tm

\* ------------------------------------------------- checkRotationTriggers
\* checkRotationTriggers with a usage count that must exceed the threshold
TriggerHit_strictCount(key, trigger, t, threatLevel, complianceIssues) ==
  /\ trigger.enabled
  /\ CASE trigger.type = "time-based"   -> t >= key.rotationSchedule.nextRotation
       [] trigger.type = "usage-count"  -> key.usage.operationsCount > trigger.threshold
       [] trigger.type = "threat-level" -> threatLevel >= trigger.threshold
       [] trigger.type = "compliance-requirement" -> complianceIssues > 0
       [] OTHER -> FALSE

\* threatLevel is what getCurrentThreatLevel returned (percent) and
\* complianceIssues the number of issues checkComplianceRequirements found:
\* both are random in the code and are chosen by the caller here
TriggerHit(key, trigger, t, threatLevel, complianceIssues) ==
  /\ trigger.enabled
  /\ CASE trigger.type = "time-based"   -> t >= key.rotationSchedule.nextRotation
       [] trigger.type = "usage-count"  -> key.usage.operationsCount >= trigger.threshold
       [] trigger.type = "threat-level" -> threatLevel >= trigger.threshold
       [] trigger.type = "compliance-requirement" -> complianceIssues > 0
       [] OTHER -> FALSE

checkRotationTriggers(key, t, threatLevel, complianceIssues) ==
  LET hits == SelectSeq(key.rotationSchedule.triggers,
                        LAMBDA tr : TriggerHit(key, tr, t, threatLevel, complianceIssues))
  IN  [shouldRotate |-> Len(hits) > 0,
       reasons |-> [i \in DOMAIN hits |-> hits[i].type]]

HasTrigger(key, type) ==
  \E i \in DOMAIN key.rotationSchedule.triggers :
     key.rotationSchedule.triggers[i].type = type

\* -------------------------------------------------------- updateKeyUsage
\* updateKeyUsage that never cuts the window
RecordUsage_noCut(usage, operation, dataSize, t) ==
  [operationsCount |-> usage.operationsCount + 1,
   dataVolume |-> usage.dataVolume + dataSize,
   lastUsed |-> t,
   performanceMetrics |->
     Append(usage.performanceMetrics,
            [operation |-> operation, timestamp |-> t,
             seq |-> usage.operationsCount + 1])]

\* lines 307-324: the counters, the metric pushed, the window cut to 100.
\* A sample's random latency and throughput are stood for by seq, the
\* sample's arrival number on its key.
RecordUsage(usage, operation, dataSize, t) ==
  LET metric == [operation |-> operation, timestamp |-> t,
                 seq |-> usage.operationsCount + 1]
      pushed == Append(usage.performanceMetrics, metric)
  IN  [operationsCount |-> usage.operationsCount + 1,
       dataVolume |-> usage.dataVolume + dataSize,
       lastUsed |-> t,
       performanceMetrics |-> IF Len(pushed) > MetricsWindow
                              THEN SliceLast(pushed, MetricsWindow) ELSE pushed]

\* n >= 1 calls of RecordUsage in a row at hour t, in closed form: of the n
\* samples pushed only the last MetricsWindow can survive the cut
RecordUsageTimes(usage, n, operation, dataSize, t) ==
  LET m == IF n < MetricsWindow THEN n ELSE MetricsWindow
      fresh == [i \in 1..m |-> [operation |-> operation, timestamp |-> t,
                                seq |-> usage.operationsCount + (n - m) + i]]
  IN  [operationsCount |-> usage.operationsCount + n,
       dataVolume |-> usage.dataVolume + n * dataSize,
       lastUsed |-> t,
       performanceMetrics |->
         SliceLast(usage.performanceMetrics \o fresh, MetricsWindow)]

\* ------------------------------------------------------------------ inputs
OrgDefault == <<"d","e","f","a","u","l","t">>
OrgEnterprise == <<"a","c","m","e","-","e","n","t","e","r","p","r","i","s","e">>
OrgCorp == <<"m","e","g","a","c","o","r","p">>

\* request bodies of POST createKey; the last lacks its keySize
KeyRequests ==
  { [algorithm |-> "RSA-2048", keySize |-> 2048, purpose |-> "signing",
     organizationId |-> OrgDefault],
    [algorithm |-> "AES-256", keySize |-> 256, purpose |-> "encryption",
     organizationId |-> OrgCorp],
    [algorithm |-> "CRYSTALS-Kyber", keySize |-> 1024, purpose |-> "key-exchange",
     organizationId |-> OrgEnterprise],
    [algorithm |-> "RSA-2048", keySize |-> 0, purpose |-> "signing",
     organizationId |-> OrgDefault] }

TickSteps == {42}
ThreatLevels == {50, 70}
ComplianceIssueCounts == {0, 1}
Operations == {"encrypt"}
DataSizes == {512}


\* res.status(..).json of a key handler: the route, the status, the key id the
\* error message names (0: none) and how many times the handler had called
\* the service when it answered
Response(route, status, keyId, attempts) ==
  [route |-> route, status |-> status, keyId |-> keyId, attempts |-> attempts]

\* getRotationHistory(keyId)
getRotationHistory(keyId) ==
  IF keyId \in DOMAIN rotationHistory THEN rotationHistory[keyId] ELSE <<>>

\* ------------------------------------------------------------------- Init
InitKeys ==
  /\ keys = <<>>
  /\ rotationQueue = <<>>
  /\ rotationHistory = <<>>
  /\ timers = {}
  /\ calls = {}
  /\ rotationLog = {}
  /\ nevents = 0
  /\ errorResponses = <<>>
  /\ now = 0

\* ---------------------------------------------------------------- actions
\* Hours pass between the event loop's tasks only: every await of the service
\* is on a promise settled without I/O, so a suspended call resumes in the
\* same task
Tick(d) ==
  /\ calls = {}
  /\ now + d <= MaxTime
  /\ now' = now + d
  /\ UNCHANGED <<keys, rotationQueue, rotationHistory, timers, calls, rotationLog,
                 errorResponses, nevents>>

\* POST createKey (lines 348-375) with createKey (26-56) and scheduleRotation
\* (281-301) up to the timer it arms
CreateKeyHandler(body) ==
  /\ nevents < MaxEvents
  /\ nevents' = nevents + 1
  /\ IF body.keySize = 0
     THEN /\ errorResponses' = Append(errorResponses, Response("create", 400, 0, 0))
          /\ UNCHANGED <<keys, rotationQueue, timers>>
     ELSE LET key == NewKey(generateKeyId(keys), body.algorithm, body.keySize,
                            body.purpose, body.organizationId, now)
          IN  /\ keys' = keys @@ (key.id :> key)
              /\ rotationQueue' = QueueAfterSchedule(rotationQueue, key)
              /\ timers' = TimersAfterSchedule(timers, key, now)
              /\ UNCHANGED errorResponses
  /\ UNCHANGED <<rotationHistory, calls, rotationLog, now>>

\* rotateKey that replaces the rotated key's list by the new date
HistoryAfterRotation_overwrite(keyId, t) == (keyId :> <<t>>) @@ rotationHistory

\* rotateKey lines 168-170: the date pushed on the rotated key's own list
HistoryAfterRotation(keyId, t) ==
  (keyId :> Append(getRotationHistory(keyId), t)) @@ rotationHistory

\* rotateKey that invalidates the old key at once
OldKeyAfterRotation_noGrace(ks, keyId, t) == [ks EXCEPT ![keyId].expiresAt = t]

\* rotateKey line 173: the old key stays in the map with a grace expiration
OldKeyAfterRotation(ks, keyId, t) ==
  [ks EXCEPT ![keyId].expiresAt = t + GraceHours]

\* rotateKey lines 151-165, for a key of the store ks: the successor is chosen,
\* created and stored by createKey, and the call suspends at the await
rotateKeyBegin(ks, tm, keyId, caller) ==
  LET existingKey == ks[keyId]
      newAlgorithm == selectOptimalAlgorithm(existingKey.purpose, existingKey.algorithm)
      newKeySize == selectOptimalKeySize(newAlgorithm, existingKey.keySize)
      newKey == NewKey(generateKeyId(ks), newAlgorithm, newKeySize,
                       existingKey.purpose, OrgDefault, now)
  IN  /\ keys' = ks @@ (newKey.id :> newKey)
      /\ rotationQueue' = QueueAfterSchedule(rotationQueue, newKey)
      /\ timers' = TimersAfterSchedule(tm, newKey, now)
      /\ calls' = calls \cup {[keyId |-> keyId, newKey |-> newKey.id,
                               caller |-> caller]}

\* a rotate handler that records the rotation before it looks the key up
RotateKeyHandler_recordFirst(keyId) ==
  /\ nevents < MaxEvents
  /\ nevents' = nevents + 1
  /\ IF keyId \notin DOMAIN keys
     THEN /\ errorResponses' = Append(errorResponses, Response("rotate", 500, keyId, 1))
          /\ rotationHistory' = HistoryAfterRotation(keyId, now)
          /\ UNCHANGED <<keys, rotationQueue, timers, calls>>
     ELSE /\ rotateKeyBegin(keys, timers, keyId, "http")
          /\ UNCHANGED <<errorResponses, rotationHistory>>
  /\ UNCHANGED <<rotationLog, now>>

\* POST rotateKey (lines 377-401): a key that is not in the store makes
\* rotateKey throw at line 153, and the catch answers 500
RotateKeyHandler(keyId) ==
  /\ nevents < MaxEvents
  /\ nevents' = nevents + 1
  /\ IF keyId \notin DOMAIN keys
     THEN /\ errorResponses' = Append(errorResponses, Response("rotate", 500, keyId, 1))
          /\ UNCHANGED <<keys, rotationQueue, timers, calls>>
     ELSE /\ rotateKeyBegin(keys, timers, keyId, "http")
          /\ UNCHANGED errorResponses
  /\ UNCHANGED <<rotationHistory, rotationLog, now>>

\* a rotateKey that records nothing when another call for the key is under way
rotateKeyResume_deduplicated(c) ==
  /\ c \in calls
  /\ calls' = calls \ {c}
  /\ rotationHistory' = IF \E d \in calls : d # c /\ d.keyId = c.keyId
                        THEN rotationHistory
                        ELSE HistoryAfterRotation(c.keyId, now)
  /\ keys' = OldKeyAfterRotation(keys, c.keyId, now)
  /\ rotationLog' = rotationLog \cup {[old |-> c.keyId, new |-> c.newKey,
                                        at |-> now, reason |-> c.caller]}
  /\ UNCHANGED <<rotationQueue, timers, errorResponses, nevents, now>>

\* rotateKey lines 167-177 after the await, and the caller's continuation: the
\* handler's 200, updateKeyUsage's return, or the end of the timer callback
rotateKeyResume(c) ==
  /\ c \in calls
  /\ calls' = calls \ {c}
  /\ rotationHistory' = HistoryAfterRotation(c.keyId, now)
  /\ keys' = OldKeyAfterRotation(keys, c.keyId, now)
  /\ rotationLog' = rotationLog \cup {[old |-> c.keyId, new |-> c.newKey,
                                        at |-> now, reason |-> c.caller]}
  /\ UNCHANGED <<rotationQueue, timers, errorResponses, nevents, now>>

UsageThresholdOf(key) ==
  LET tr == key.rotationSchedule.triggers
  IN  tr[CHOOSE i \in DOMAIN tr : tr[i].type = "usage-count"].threshold

\* POST updateKeyUsage (lines 459-479) with updateKeyUsage (303-331): the usage
\* recorded, the triggers checked, and rotateKey entered when one is satisfied.
\* Nothing the call reads after its first await is written by another call, so
\* the steps up to rotateKey's await are taken as one.
UpdateKeyUsageHandler(keyId, operation, dataSize) ==
  /\ nevents < MaxEvents
  /\ nevents' = nevents + 1
  /\ IF keyId \notin DOMAIN keys
     THEN UNCHANGED <<keys, rotationQueue, timers, calls>>
     ELSE \E threatLevel \in ThreatLevels, issues \in ComplianceIssueCounts :
          LET key == [keys[keyId] EXCEPT
                        !.usage = RecordUsage(@, operation, dataSize, now)]
              ks == [keys EXCEPT ![keyId] = key]
              check == checkRotationTriggers(key, now, threatLevel, issues)
          IN  IF check.shouldRotate
              THEN rotateKeyBegin(ks, timers, keyId, "usage")
              ELSE /\ keys' = ks
                   /\ UNCHANGED <<rotationQueue, timers, calls>>
  /\ UNCHANGED <<rotationHistory, rotationLog, errorResponses, now>>

\* A run of updateKeyUsage requests on one key within the hour, none of which
\* finds a trigger satisfied, up to one operation short of the usage threshold
\* (counted as one task)
UsageBurst(keyId, operation, dataSize) ==
  /\ nevents < MaxEvents
  /\ keyId \in DOMAIN keys
  /\ now < keys[keyId].rotationSchedule.nextRotation
  /\ keys[keyId].usage.operationsCount < UsageThresholdOf(keys[keyId]) - 1
  /\ LET n == UsageThresholdOf(keys[keyId]) - 1 - keys[keyId].usage.operationsCount
     IN  keys' = [keys EXCEPT
                    ![keyId].usage = RecordUsageTimes(@, n, operation, dataSize, now)]
  /\ nevents' = nevents + 1
  /\ UNCHANGED <<rotationQueue, rotationHistory, timers, calls, rotationLog, errorResponses, now>>

\* the setTimeout callback of scheduleRotation (lines 291-300)
TimerFire(tm) ==
  /\ tm \in timers
  /\ now >= tm.due
  /\ nevents < MaxEvents
  /\ nevents' = nevents + 1
  /\ \E threatLevel \in ThreatLevels, issues \in ComplianceIssueCounts :
       LET check == checkRotationTriggers(keys[tm.keyId], now, threatLevel, issues)
       IN  IF check.shouldRotate
           THEN rotateKeyBegin(keys, timers \ {tm}, tm.keyId, "timer")
           ELSE /\ timers' = timers \ {tm}
                /\ UNCHANGED <<keys, rotationQueue, calls>>
  /\ UNCHANGED <<rotationHistory, rotationLog, errorResponses, now>>

KeyNext ==
  \/ \E d \in TickSteps : Tick(d) /\ UNCHANGED <<schedVars, httpVars, authVars, engineVars>>
  \/ \E body \in KeyRequests : CreateKeyHandler(body) /\ UNCHANGED <<schedVars, httpVars, authVars, engineVars>>
  \/ \E keyId \in DOMAIN keys \cup {generateKeyId(keys)} :
       RotateKeyHandler(keyId) /\ UNCHANGED <<schedVars, httpVars, authVars, engineVars>>
  \/ \E c \in calls : rotateKeyResume(c) /\ UNCHANGED <<schedVars, httpVars, authVars, engineVars>>
  \/ \E keyId \in DOMAIN keys \cup {generateKeyId(keys)},
        operation \in Operations, dataSize \in DataSizes :
       UpdateKeyUsageHandler(keyId, operation, dataSize) /\ UNCHANGED <<schedVars, httpVars, authVars, engineVars>>
  \/ \E keyId \in DOMAIN keys, operation \in Operations, dataSize \in DataSizes :
       UsageBurst(keyId, operation, dataSize) /\ UNCHANGED <<schedVars, httpVars, authVars, engineVars>>
  \/ \E tm \in timers : TimerFire(tm) /\ UNCHANGED <<schedVars, httpVars, authVars, engineVars>>

\* ===================================================== rotation scheduler
\* The background jobs over the database: the key rotation scheduler
\* (part_010) and the threat monitor (test-utils.ts). Times are seconds since
\* the epoch, the precision of a TIMESTAMP column. A job's run is a chain of
\* awaited queries; each query is one step, taken together with the
\* synchronous code that follows its result up to the next query.

Jobs == {"scheduled", "threat", "monitor"}
NULL == "NULL"
\* a NULL TIMESTAMP
NullTime == -1

\* the cron patterns '*/5', '*/15' and '0 * * * *', and the startup timer
CronPeriod == 300
ScheduledPeriod == 900
MonitorPeriod == 3600
StartupDelay == 5
\* DATE_SUB(NOW(), INTERVAL 24 HOUR)
ThreatWindow == 86400
\* severity_level >= 4
SevereLevel == 4
\* the server starts ten seconds before an hour begins
StartTime == 1799999990
FirstTick == 1800000000

SetMax(S) == CHOOSE m \in S : \A x \in S : x <= m
SetMin(S) == CHOOSE m \in S : \A x \in S : m <= x

\* ------------------------------------------------------------ the tables
SystemRow(enabled, interval, current, backup) ==
  [auto_rotation_enabled |-> enabled, key_rotation_interval |-> interval,
   current_algorithm_id |-> current, backup_algorithm_id |-> backup]

\* system_configurations as the scheduler may find it: no code of the
\* repository inserts into it
SystemTables ==
  { <<SystemRow(TRUE, 900, "rsa-2048", "kyber-768"),
      SystemRow(FALSE, 900, "rsa-2048", NULL)>>,
    <<SystemRow(TRUE, 900, "rsa-2048", NULL),
      SystemRow(TRUE, 1800, "kyber-768", "kyber-768")>> }

HistoryRow(system, old, new, trigger, timestamp, status) ==
  [system_config_id |-> system, old_algorithm_id |-> old, new_algorithm_id |-> new,
   rotation_trigger |-> trigger, rotation_timestamp |-> timestamp,
   completion_status |-> status]

\* key_rotation_history left by earlier runs: empty; system 1 rotated exactly
\* one interval before the first tick; system 1 rotated a second later than
\* that, with a later rotation that failed
HistoryTables ==
  { <<>>,
    <<HistoryRow(1, "rsa-2048", "rsa-2048", "scheduled", FirstTick - 900, "completed")>>,
    <<HistoryRow(1, "rsa-2048", "rsa-2048", "scheduled", FirstTick - 899, "completed"),
      HistoryRow(1, "rsa-2048", "rsa-2048", "manual", FirstTick - 60, "failed")>> }

ThreatRow(id, severity, affected, created, active) ==
  [id |-> id, severity_level |-> severity, affected_algorithms |-> affected,
   created_at |-> created, is_active |-> active]

\* threat_intelligence as the threat job may find it: empty; one severe threat
\* to rsa-2048 created exactly 24 hours before the first tick; threats that are
\* too mild, inactive, or about another algorithm, one of them under the id
\* the startup scan gives the threat it detects (a row another instance of
\* the server has stored)
ThreatTables ==
  { {},
    {ThreatRow(1, 4, {"rsa-2048", "ecc-p256"}, FirstTick - ThreatWindow, TRUE)},
    {ThreatRow(2, 3, {"rsa-2048"}, FirstTick - 60, TRUE),
     ThreatRow(3, 5, {"rsa-2048"}, FirstTick - 60, FALSE),
     ThreatRow(4, 5, {"ecc-p256"}, FirstTick - 60, TRUE),
     ThreatRow(StartTime + StartupDelay, 2, {"ecc-p256"}, FirstTick - 60, TRUE)} }

\* what detectThreats returns: nothing, or one threat of a random severity
Detections == {0, 5}
\* the seconds a simulated rotation takes
WaitSeconds == {1, 3}

\* ------------------------------------------------------------ the queries
\* MAX(rotation_timestamp) over the completed rows of the system, NULL if none
LastCompleted(h, id) ==
  LET ts == {h[i].rotation_timestamp :
               i \in {j \in DOMAIN h : /\ h[j].system_config_id = id
                                       /\ h[j].completion_status = "completed"}}
  IN  IF ts = {} THEN NullTime ELSE SetMax(ts)

\* the rows of lines 39-49 (job "scheduled": with last_rotation) and of lines
\* 83-86 (job "threat"), in id order
SystemsQuery(job, sys, h) ==
  LET row(i) == [id |-> i,
                 key_rotation_interval |-> sys[i].key_rotation_interval,
                 current_algorithm_id |-> sys[i].current_algorithm_id,
                 last_rotation |-> IF job = "scheduled" THEN LastCompleted(h, i)
                                   ELSE NullTime]
      all == [i \in DOMAIN sys |-> row(i)]
  IN  SelectSeq(all, LAMBDA r : sys[r.id].auto_rotation_enabled)

\* the rows of lines 74-79
RecentThreats(th, t) ==
  {x \in th : /\ x.severity_level >= SevereLevel
              /\ x.created_at >= t - ThreatWindow
              /\ x.is_active}

\* the interval must have been exceeded, not reached
IsDue_strict(row, t) ==
  LET lastRotation == IF row.last_rotation = NullTime THEN 0 ELSE row.last_rotation
  IN  t - lastRotation > row.key_rotation_interval

\* lines 52-56: timeSinceRotation >= rotationInterval
IsDue(row, t) ==
  LET lastRotation == IF row.last_rotation = NullTime THEN 0 ELSE row.last_rotation
  IN  t - lastRotation >= row.key_rotation_interval

\* what executeQuery returns for a column of type JSON (affected_algorithms):
\* mysql2 hands back the parsed document when the server reports the column
\* as JSON (MySQL), and the document's text when the server stores JSON as
\* text (MariaDB)
JsonColumnReads == {"text", "parsed"}

\* line 91 on the rows of recentThreats: JSON.parse of a document that is
\* already an array converts it to "rsa-2048,ecc-p256", which is not JSON, and
\* throws a SyntaxError
ParseThrows(read, recentThreats) ==
  read = "parsed" /\ recentThreats # {}

\* lines 90-93, for column text
AffectedByThreat(row, recentThreats) ==
  \E x \in recentThreats : row.current_algorithm_id \in x.affected_algorithms

Selected(job, row, t, recentThreats) ==
  IF job = "scheduled" THEN IsDue(row, t) ELSE AffectedByThreat(row, recentThreats)

\* ------------------------------------------------------------ job runs
\* A run of a job: where it is (pc), how it was entered (a cron callback or the
\* startup timer), the rows its loop still has to look at (todo), the threats
\* it fetched, the system row and history row of the rotation it performs, and
\* when its simulated rotation ends (wake). Kept for the properties: the
\* tables as the run's queries saw them (seen), the systems its loop has
\* looked at with the time and whether rotation was invoked (examined), and
\* how the run ended (ended).
NoSnapshot == [systems |-> <<>>, history |-> <<>>, threats |-> {}, at |-> 0, threatsAt |-> 0]

NoSystem == SystemRow(FALSE, 0, NULL, NULL)

IdleRun ==
  [pc |-> "idle", entry |-> "cron", startedAt |-> 0, todo |-> <<>>, threats |-> {},
   sys |-> 0, system |-> NoSystem, row |-> 0, wake |-> 0, found |-> 0,
   seen |-> NoSnapshot, examined |-> {}, ended |-> "never"]

StartRun(pc, entry, t) ==
  [IdleRun EXCEPT !.pc = pc, !.entry = entry, !.startedAt = t, !.ended = "running"]

\* the first query of each job
FirstStep(job) ==
  CASE job = "scheduled" -> "query_systems"
    [] job = "threat"    -> "query_threats"
    [] job = "monitor"   -> "store"

\* the jobs whose cron pattern matches the time
CronDue(t) ==
  {"threat"} \cup (IF t % ScheduledPeriod = 0 THEN {"scheduled"} ELSE {})
             \cup (IF t % MonitorPeriod = 0 THEN {"monitor"} ELSE {})

NextCron(t) == (t \div CronPeriod + 1) * CronPeriod

\* the loops of lines 51-62 and 88-101 from the head of todo on: the rows
\* passed over, and the first row for which performKeyRotation is called
RECURSIVE LoopUntilInvoke(_, _, _, _)
LoopUntilInvoke(job, todo, t, recentThreats) ==
  IF todo = <<>> THEN [target |-> 0, rest |-> <<>>, passed |-> {}]
  ELSE IF Selected(job, Head(todo), t, recentThreats)
       THEN [target |-> Head(todo).id, rest |-> Tail(todo), passed |-> {}]
       ELSE LET r == LoopUntilInvoke(job, Tail(todo), t, recentThreats)
            IN  [r EXCEPT !.passed = @ \cup {Head(todo).id}]

\* the run after its loop has gone on to the next performKeyRotation call, or
\* to the end of the scan
ContinueLoop(job, run, t) ==
  LET r == LoopUntilInvoke(job, run.todo, t, run.threats)
      passed == {[system |-> s, at |-> t, invoked |-> FALSE] : s \in r.passed}
  IN  IF r.target = 0
      THEN [run EXCEPT !.pc = "idle", !.todo = <<>>, !.sys = 0, !.row = 0,
                       !.system = NoSystem, !.wake = 0,
                       !.examined = @ \cup passed, !.ended = "finished"]
      ELSE [run EXCEPT !.pc = "perf_select", !.todo = r.rest, !.sys = r.target,
                       !.row = 0, !.system = NoSystem, !.wake = 0,
                       !.examined = @ \cup passed \cup
                          {[system |-> r.target, at |-> t, invoked |-> TRUE]}]

\* ------------------------------------------------------------ exceptions
ScanFunction(job) ==
  CASE job = "scheduled" -> "checkScheduledRotations"
    [] job = "threat"    -> "checkThreatTriggeredRotations"
    [] job = "monitor"   -> "performThreatScan"

\* the functions an exception passes on its way out, innermost first
CallChain(job, entry, inPerform) ==
  (IF inPerform THEN <<"performKeyRotation">> ELSE <<>>)
  \o <<ScanFunction(job)>>
  \o (IF entry = "cron" THEN <<"cronCallback">> ELSE <<>>)

\* performThreatScan without its try
Catches_scanUnguarded(fn) ==
  fn \in {"performKeyRotation", "checkScheduledRotations",
          "checkThreatTriggeredRotations", "cronCallback"}

\* the functions whose body is a try with a catch that logs and returns
Catches(fn) ==
  fn \in {"performKeyRotation", "checkScheduledRotations",
          "checkThreatTriggeredRotations", "performThreatScan", "cronCallback"}

CaughtBy(chain) ==
  IF \E i \in DOMAIN chain : Catches(chain[i])
  THEN chain[CHOOSE i \in DOMAIN chain :
               Catches(chain[i]) /\ \A j \in 1..(i-1) : ~Catches(chain[j])]
  ELSE "unhandled"

\* the run after an exception: performKeyRotation's catch lets the loop go on,
\* an outer catch ends the run, and an exception nobody catches ends the process
AfterException(job, run, inPerform, t) ==
  LET by == CaughtBy(CallChain(job, run.entry, inPerform))
  IN  IF by = "performKeyRotation" THEN ContinueLoop(job, run, t)
      ELSE [run EXCEPT !.pc = "idle", !.todo = <<>>, !.sys = 0, !.row = 0,
                       !.system = NoSystem, !.wake = 0, !.ended = "aborted"]

\* executeQuery: a query succeeds, or fails while failures are left to inject
QueryOutcomes == IF faults < MaxFaults THEN {TRUE, FALSE} ELSE {TRUE}

\* the bookkeeping of a step of job's run that raised (raisedIn: TRUE inside
\* performKeyRotation) or did not
Raise(job, inPerform) ==
  LET by == CaughtBy(CallChain(job, runs[job].entry, inPerform))
  IN  /\ crashed' = (crashed \/ by = "unhandled")
      /\ errorLog' = IF by = "unhandled" THEN errorLog
                     ELSE errorLog \cup {[job |-> job, by |-> by, at |-> clock]}

Outcome(ok) ==
  faults' = IF ok THEN faults ELSE faults + 1

\* ------------------------------------------------------------ job steps
Trigger(job) == IF job = "scheduled" THEN "scheduled" ELSE "threat_detected"

SetStatus(h, row, status) == [h EXCEPT ![row].completion_status = status]

\* performKeyRotation recording the rotation as already under way
InitiatedRow_inProgress(job, run, t) ==
  HistoryRow(run.sys, run.system.current_algorithm_id,
             IF run.system.backup_algorithm_id # NULL
             THEN run.system.backup_algorithm_id
             ELSE run.system.current_algorithm_id,
             Trigger(job), t, "in_progress")

\* lines 129-141: the row performKeyRotation inserts
InitiatedRow(job, run, t) ==
  HistoryRow(run.sys, run.system.current_algorithm_id,
             IF run.system.backup_algorithm_id # NULL
             THEN run.system.backup_algorithm_id
             ELSE run.system.current_algorithm_id,
             Trigger(job), t, "initiated")

\* performThreatScan entered (lines 64-70): detectThreats has run, and the
\* scan is at the INSERT of the threat it found, or over if it found none
MonitorStart(entry, found, t) ==
  IF found = 0
  THEN [StartRun("idle", entry, t) EXCEPT !.ended = "finished"]
  ELSE [StartRun("store", entry, t) EXCEPT !.found = found]

SchedIdle ==
  /\ systems = <<>>
  /\ history = <<>>
  /\ threats = {}
  /\ clock = StartTime
  /\ ticks = 0
  /\ faults = 0
  /\ runs = [j \in Jobs |-> IdleRun]
  /\ crashed = FALSE
  /\ errorLog = {}
  /\ jsonColumns = "text"

\* startThreatMonitoring and startKeyRotationScheduler have been called on a
\* database that holds some systems, history rows and threats
SchedInit ==
  /\ systems \in SystemTables
  /\ history \in HistoryTables
  /\ threats \in ThreatTables
  /\ clock = StartTime
  /\ ticks = 0
  /\ faults = 0
  /\ runs = [j \in Jobs |-> IdleRun]
  /\ crashed = FALSE
  /\ errorLog = {}
  /\ jsonColumns \in JsonColumnReads

\* setTimeout(performThreatScan, 5000) fires (test-utils.ts line 58)
StartupScan(found) ==
  /\ ~crashed
  /\ clock = StartTime
  /\ clock' = StartTime + StartupDelay
  /\ runs' = [runs EXCEPT !["monitor"] = MonitorStart("timer", found, clock')]
  /\ UNCHANGED <<systems, history, threats, ticks, faults, crashed, errorLog>>

\* the next five-minute mark: node-cron calls the callbacks whose pattern
\* matches (part_010 lines 16-31, test-utils.ts lines 49-55). Earlier runs
\* have ended: a scan of these tables takes seconds.
CronTick(found) ==
  /\ ~crashed
  /\ clock > StartTime
  /\ ticks < MaxTicks
  /\ \A j \in Jobs : runs[j].pc = "idle"
  /\ clock' = NextCron(clock)
  /\ ticks' = ticks + 1
  /\ found = 0 \/ "monitor" \in CronDue(clock')
  /\ runs' = [j \in Jobs |->
                IF j \notin CronDue(clock') THEN runs[j]
                ELSE IF j = "monitor" THEN MonitorStart("cron", found, clock')
                ELSE StartRun(FirstStep(j), "cron", clock')]
  /\ UNCHANGED <<systems, history, threats, faults, crashed, errorLog>>

\* checkThreatTriggeredRotations lines 74-81
QueryThreats(ok) ==
  LET run == runs["threat"]
      recent == RecentThreats(threats, clock)
      saw == [run EXCEPT !.threats = recent,
                         !.seen = [@ EXCEPT !.threats = threats, !.threatsAt = clock]]
  IN  /\ run.pc = "query_threats"
      /\ Outcome(ok)
      /\ IF ok
         THEN /\ runs' = [runs EXCEPT !["threat"] =
                            IF recent = {}
                            THEN [saw EXCEPT !.pc = "idle", !.ended = "finished"]
                            ELSE [saw EXCEPT !.pc = "query_systems"]]
              /\ UNCHANGED <<crashed, errorLog>>
         ELSE /\ runs' = [runs EXCEPT !["threat"] =
                            AfterException("threat", run, FALSE, clock)]
              /\ Raise("threat", FALSE)
      /\ UNCHANGED <<systems, history, threats, clock, ticks>>

\* checkScheduledRotations lines 39-51, checkThreatTriggeredRotations 83-93:
\* the query, and the loop up to its first call of performKeyRotation; the
\* threat job's loop parses the threats' affected_algorithms at its first row
QuerySystems(job, ok) ==
  LET run == runs[job]
      saw == [run EXCEPT !.todo = SystemsQuery(job, systems, history),
                         !.seen = [@ EXCEPT !.systems = systems,
                                            !.history = history, !.at = clock]]
      thrown == /\ job = "threat"
                /\ saw.todo # <<>>
                /\ ParseThrows(jsonColumns, run.threats)
  IN  /\ run.pc = "query_systems"
      /\ Outcome(ok)
      /\ IF ok /\ ~thrown
         THEN /\ runs' = [runs EXCEPT ![job] = ContinueLoop(job, saw, clock)]
              /\ UNCHANGED <<crashed, errorLog>>
         ELSE /\ runs' = [runs EXCEPT ![job] =
                            AfterException(job, IF ok THEN saw ELSE run, FALSE, clock)]
              /\ Raise(job, FALSE)
      /\ UNCHANGED <<systems, history, threats, clock, ticks>>

\* performKeyRotation lines 116-125
PerformSelect(job, ok) ==
  LET run == runs[job]
  IN  /\ run.pc = "perf_select"
      /\ Outcome(ok)
      /\ IF ok /\ run.sys \in DOMAIN systems
         THEN /\ runs' = [runs EXCEPT ![job] =
                            [run EXCEPT !.pc = "perf_insert", !.system = systems[run.sys]]]
              /\ UNCHANGED <<crashed, errorLog>>
         ELSE /\ runs' = [runs EXCEPT ![job] = AfterException(job, run, TRUE, clock)]
              /\ Raise(job, TRUE)
      /\ UNCHANGED <<systems, history, threats, clock, ticks>>

\* a performKeyRotation that returns when it finds a row the other job has
\* inserted for the system since the tick
PerformInsert_deduplicated(job, ok) ==
  LET run == runs[job]
      taken == \E i \in DOMAIN history :
                  /\ history[i].system_config_id = run.sys
                  /\ history[i].rotation_timestamp >= run.startedAt
  IN  /\ run.pc = "perf_insert"
      /\ Outcome(ok)
      /\ IF ok /\ ~taken
         THEN /\ history' = Append(history, InitiatedRow(job, run, clock))
              /\ runs' = [runs EXCEPT ![job] =
                            [run EXCEPT !.pc = "sim_progress", !.row = Len(history) + 1]]
              /\ UNCHANGED <<crashed, errorLog>>
         ELSE /\ runs' = [runs EXCEPT ![job] = AfterException(job, run, TRUE, clock)]
              /\ Raise(job, TRUE)
              /\ UNCHANGED history
      /\ UNCHANGED <<systems, threats, clock, ticks>>

\* performKeyRotation lines 126-144
PerformInsert(job, ok) ==
  LET run == runs[job]
  IN  /\ run.pc = "perf_insert"
      /\ Outcome(ok)
      /\ IF ok
         THEN /\ history' = Append(history, InitiatedRow(job, run, clock))
              /\ runs' = [runs EXCEPT ![job] =
                            [run EXCEPT !.pc = "sim_progress", !.row = Len(history) + 1]]
              /\ UNCHANGED <<crashed, errorLog>>
         ELSE /\ runs' = [runs EXCEPT ![job] = AfterException(job, run, TRUE, clock)]
              /\ Raise(job, TRUE)
              /\ UNCHANGED history
      /\ UNCHANGED <<systems, threats, clock, ticks>>

\* simulateRotationProcess lines 159-165; a failed query enters the catch
MarkInProgress(job, ok, d) ==
  LET run == runs[job]
  IN  /\ run.pc = "sim_progress"
      /\ Outcome(ok)
      /\ IF ok
         THEN /\ history' = SetStatus(history, run.row, "in_progress")
              /\ runs' = [runs EXCEPT ![job] =
                            [run EXCEPT !.pc = "sim_wait", !.wake = clock + d]]
         ELSE /\ runs' = [runs EXCEPT ![job] = [run EXCEPT !.pc = "sim_failed"]]
              /\ UNCHANGED history
      /\ UNCHANGED <<systems, threats, clock, ticks, crashed, errorLog>>

\* simulateRotationProcess lines 167-187, after the timer
CompleteRotation(job, ok) ==
  LET run == runs[job]
  IN  /\ run.pc = "sim_wait"
      /\ clock >= run.wake
      /\ Outcome(ok)
      /\ IF ok
         THEN /\ history' = SetStatus(history, run.row, "completed")
              /\ runs' = [runs EXCEPT ![job] =
                            IF /\ run.system.backup_algorithm_id # NULL
                               /\ run.system.backup_algorithm_id #
                                    run.system.current_algorithm_id
                            THEN [run EXCEPT !.pc = "sim_config"]
                            ELSE ContinueLoop(job, run, clock)]
         ELSE /\ runs' = [runs EXCEPT ![job] = [run EXCEPT !.pc = "sim_failed"]]
              /\ UNCHANGED history
      /\ UNCHANGED <<systems, threats, clock, ticks, crashed, errorLog>>

\* simulateRotationProcess lines 188-192
UpdateSystem(job, ok) ==
  LET run == runs[job]
  IN  /\ run.pc = "sim_config"
      /\ Outcome(ok)
      /\ IF ok
         THEN /\ systems' = [systems EXCEPT ![run.sys].current_algorithm_id =
                               run.system.backup_algorithm_id]
              /\ runs' = [runs EXCEPT ![job] = ContinueLoop(job, run, clock)]
         ELSE /\ runs' = [runs EXCEPT ![job] = [run EXCEPT !.pc = "sim_failed"]]
              /\ UNCHANGED systems
      /\ UNCHANGED <<history, threats, clock, ticks, crashed, errorLog>>

\* simulateRotationProcess lines 194-201: the catch marks the row and rethrows;
\* if its own query fails, that error is the one thrown
MarkFailed(job, ok) ==
  LET run == runs[job]
  IN  /\ run.pc = "sim_failed"
      /\ Outcome(ok)
      /\ history' = IF ok THEN SetStatus(history, run.row, "failed") ELSE history
      /\ runs' = [runs EXCEPT ![job] = AfterException(job, run, TRUE, clock)]
      /\ Raise(job, TRUE)
      /\ UNCHANGED <<systems, threats, clock, ticks>>

\* storeThreatIntelligence that rethrows the duplicate-key error as well
StoreThreat_rethrowDuplicate(ok) ==
  LET run == runs["monitor"]
      threat == ThreatRow(run.startedAt, run.found, {"rsa-2048", "ecc-p256"},
                          clock, TRUE)
      duplicate == \E x \in threats : x.id = threat.id
  IN  /\ run.pc = "store"
      /\ Outcome(ok)
      /\ IF ok /\ ~duplicate
         THEN /\ threats' = threats \cup {threat}
              /\ runs' = [runs EXCEPT !["monitor"] =
                            [run EXCEPT !.pc = "idle", !.ended = "finished"]]
              /\ UNCHANGED <<crashed, errorLog>>
         ELSE /\ runs' = [runs EXCEPT !["monitor"] =
                            AfterException("monitor", run, FALSE, clock)]
              /\ Raise("monitor", FALSE)
              /\ UNCHANGED threats
      /\ UNCHANGED <<systems, history, clock, ticks>>

\* storeThreatIntelligence (test-utils.ts lines 113-129) for the threat
\* detectThreats made (lines 91-103): the INSERT of a row whose id is taken
\* fails with "Duplicate entry", which the catch drops; ok = FALSE is any
\* other failure of the query
StoreThreat(ok) ==
  LET run == runs["monitor"]
      threat == ThreatRow(run.startedAt, run.found, {"rsa-2048", "ecc-p256"},
                          clock, TRUE)
      duplicate == \E x \in threats : x.id = threat.id
  IN  /\ run.pc = "store"
      /\ Outcome(ok)
      /\ IF ok
         THEN /\ threats' = IF duplicate THEN threats ELSE threats \cup {threat}
              /\ runs' = [runs EXCEPT !["monitor"] =
                            [run EXCEPT !.pc = "idle", !.ended = "finished"]]
              /\ UNCHANGED <<crashed, errorLog>>
         ELSE /\ runs' = [runs EXCEPT !["monitor"] =
                            AfterException("monitor", run, FALSE, clock)]
              /\ Raise("monitor", FALSE)
              /\ UNCHANGED threats
      /\ UNCHANGED <<systems, history, clock, ticks>>

\* the clock reaches the end of the earliest simulated rotation; queries take
\* no measurable time
Elapse ==
  LET active == {j \in Jobs : runs[j].pc # "idle"}
  IN  /\ active # {}
      /\ \A j \in active : runs[j].pc = "sim_wait" /\ runs[j].wake > clock
      /\ clock' = SetMin({runs[j].wake : j \in active})
      /\ UNCHANGED <<systems, history, threats, ticks, faults, runs, crashed, errorLog>>

RotationJobs == {"scheduled", "threat"}

SchedNext ==
  \/ \E found \in Detections : StartupScan(found) /\ UNCHANGED <<keyVars, httpVars, authVars, jsonColumns, engineVars>>
  \/ \E found \in Detections : CronTick(found) /\ UNCHANGED <<keyVars, httpVars, authVars, jsonColumns, engineVars>>
  \/ \E ok \in QueryOutcomes : QueryThreats(ok) /\ UNCHANGED <<keyVars, httpVars, authVars, jsonColumns, engineVars>>
  \/ \E job \in RotationJobs, ok \in QueryOutcomes :
       QuerySystems(job, ok) /\ UNCHANGED <<keyVars, httpVars, authVars, jsonColumns, engineVars>>
  \/ \E job \in RotationJobs, ok \in QueryOutcomes :
       PerformSelect(job, ok) /\ UNCHANGED <<keyVars, httpVars, authVars, jsonColumns, engineVars>>
  \/ \E job \in RotationJobs, ok \in QueryOutcomes :
       PerformInsert(job, ok) /\ UNCHANGED <<keyVars, httpVars, authVars, jsonColumns, engineVars>>
  \/ \E job \in RotationJobs, ok \in QueryOutcomes, d \in WaitSeconds :
       MarkInProgress(job, ok, d) /\ UNCHANGED <<keyVars, httpVars, authVars, jsonColumns, engineVars>>
  \/ \E job \in RotationJobs, ok \in QueryOutcomes :
       CompleteRotation(job, ok) /\ UNCHANGED <<keyVars, httpVars, authVars, jsonColumns, engineVars>>
  \/ \E job \in RotationJobs, ok \in QueryOutcomes :
       UpdateSystem(job, ok) /\ UNCHANGED <<keyVars, httpVars, authVars, jsonColumns, engineVars>>
  \/ \E job \in RotationJobs, ok \in QueryOutcomes :
       MarkFailed(job, ok) /\ UNCHANGED <<keyVars, httpVars, authVars, jsonColumns, engineVars>>
  \/ \E ok \in QueryOutcomes : StoreThreat(ok) /\ UNCHANGED <<keyVars, httpVars, authVars, jsonColumns, engineVars>>
  \/ Elapse /\ UNCHANGED <<keyVars, httpVars, authVars, jsonColumns, engineVars>>

\* ===================================================== clearance-gated reads
\* The three GET handlers that add fields for higher clearance levels, over a
\* database db of users, systems, rotation history and threats. A handler's
\* queries are taken on one state of the database; every row is inside the
\* time windows of the queries. req.user comes from the verified token
\* (auth.js lines 46-51).

Algorithm(id, level, status, performance, strength) ==
  [id |-> id, quantum_resistance_level |-> level, implementation_status |-> status,
   performance_score |-> performance, security_strength |-> strength]

\* cryptographic_algorithms
Algorithms ==
  { Algorithm("kyber-768", 5, "standardized", 85, 192),
    Algorithm("rsa-2048", 1, "standardized", 70, 112) }

AlgorithmIds == {a.id : a \in Algorithms}
AlgorithmById(id) == CHOOSE a \in Algorithms : a.id = id

OwnedSystem(id, user, current, backup, sensitivity, enabled) ==
  [id |-> id, user_id |-> user, current_algorithm_id |-> current,
   backup_algorithm_id |-> backup, threat_sensitivity_level |-> sensitivity,
   auto_rotation_enabled |-> enabled]

AliceSystem == OwnedSystem(1, "alice", "rsa-2048", "kyber-768", 3, TRUE)
BobSystem == OwnedSystem(2, "bob", "kyber-768", NULL, 5, TRUE)
BobLegacySystem == OwnedSystem(3, "bob", "rsa-2048", NULL, 2, FALSE)

\* system_configurations as a request may find it
SystemSets ==
  { {AliceSystem}, {AliceSystem, BobSystem}, {AliceSystem, BobSystem, BobLegacySystem} }

\* threat_intelligence as a request may find it
ThreatSets ==
  { {}, {ThreatRow(1, 4, {"rsa-2048"}, 0, TRUE), ThreatRow(2, 2, {"ecc-p256"}, 0, FALSE)} }

Rotation(system, trigger, new) ==
  [system_config_id |-> system, rotation_trigger |-> trigger, new_algorithm_id |-> new]

RotationTriggers == {"scheduled", "threat_detected"}

\* the clearance levels of the tokens presented
ClearanceLevels == {1, 2, 3}
\* the ids asked of GET /algorithms/:id
RequestedIds == {"kyber-768", "rsa-2048", "md5"}

\* the sum of f[x] over x in S
RECURSIVE SetSum(_, _)
SetSum(S, f) ==
  IF S = {} THEN 0
  ELSE LET x == CHOOSE y \in S : TRUE IN f[x] + SetSum(S \ {x}, f)

\* SQL AVG over n values of sum total: NULL over no rows; kept as the pair
Average(total, n) == IF n = 0 THEN <<>> ELSE <<total, n>>

Reverse(s) == [i \in 1..Len(s) |-> s[Len(s) + 1 - i]]
Limit(s, n) == IF Len(s) <= n THEN s ELSE SubSeq(s, 1, n)

\* cryptographic.js lines 426-447, in hundredths
AlgorithmReadinessScore(algorithm) ==
  LET resistance == algorithm.quantum_resistance_level * 20
      strength == IF algorithm.security_strength > 256 THEN 256
                  ELSE algorithm.security_strength
      maturity == CASE algorithm.implementation_status = "experimental" -> 30
                    [] algorithm.implementation_status = "candidate" -> 60
                    [] algorithm.implementation_status = "standardized" -> 100
                    [] OTHER -> 0
  IN  resistance * 40 + algorithm.performance_score * 20
      + (strength * 2000) \div 256 + maturity * 20

\* cryptographic.js line 141
MaySeeUsageStats(level) == level >= 3
\* dashboard.js line 97
MaySeeGlobalStatistics(level) == level >= 3
\* mitigations shown to every authenticated requester
MaySeeMitigations_everyone(level) == level >= 1

\* threat-detection.js line 95
MaySeeMitigations(level) == level >= 2

\* cryptographic.js lines 142-152: the systems that use the algorithm, LEFT
\* JOINed with their rotations
UsageStats(d, id) ==
  LET using == {s \in d.systems : s.current_algorithm_id = id \/ s.backup_algorithm_id = id}
      rotationsOf(s) == Len(SelectSeq(d.history, LAMBDA r : r.system_config_id = s.id))
      joined(s) == IF rotationsOf(s) = 0 THEN 1 ELSE rotationsOf(s)
      rows == SetSum(using, [s \in using |-> joined(s)])
  IN  [active_deployments |-> rows,
       avg_threat_sensitivity |->
         Average(SetSum(using, [s \in using |-> s.threat_sensitivity_level * joined(s)]),
                 rows),
       rotation_count |-> SetSum(using, [s \in using |-> rotationsOf(s)])]

\* GET /algorithms/:id (cryptographic.js lines 121-165); usageStats is <<>>
\* for null
GetAlgorithmDetails(level, id, d) ==
  IF id \notin AlgorithmIds
  THEN [status |-> 404, body |-> [quantumShieldStatus |-> "algorithm_not_found"]]
  ELSE [status |-> 200,
        body |-> [quantumShieldStatus |-> "algorithm_details_retrieved",
                  algorithm |-> AlgorithmById(id),
                  usageStats |-> IF MaySeeUsageStats(level)
                                 THEN <<UsageStats(d, id)>> ELSE <<>>,
                  quantumReadinessScore |-> AlgorithmReadinessScore(AlgorithmById(id))]]

\* dashboard.js lines 427-439
SystemsReadinessScore(userSystems) ==
  LET n == Cardinality(userSystems)
      score(s) == AlgorithmById(s.current_algorithm_id).quantum_resistance_level * 20
                  + (IF s.backup_algorithm_id # NULL THEN 10 ELSE 0)
                  + (IF s.auto_rotation_enabled THEN 10 ELSE 0)
      rounded == (2 * SetSum(userSystems, [s \in userSystems |-> score(s)]) + n)
                   \div (2 * n)
  IN  IF n = 0 THEN 0 ELSE IF rounded > 100 THEN 100 ELSE rounded

\* dashboard.js lines 34-42 and 71-78
ThreatCounts(d) ==
  LET active == {x \in d.threats : x.is_active}
  IN  [total_active_threats |-> Cardinality(active),
       high_severity_threats |-> Cardinality({x \in active : x.severity_level >= 4}),
       avg_threat_level |->
         Average(SetSum(active, [x \in active |-> x.severity_level]),
                 Cardinality(active))]

\* dashboard.js lines 45-56: the rotations of the user's systems, latest first
RecentRotations(user, d) ==
  LET own == {s.id : s \in {x \in d.systems : x.user_id = user}}
  IN  Limit(Reverse(SelectSeq(d.history, LAMBDA r : r.system_config_id \in own)), 5)

\* dashboard.js lines 98-106
GlobalStatistics(d) ==
  [total_users |-> d.users,
   total_systems |-> Cardinality(d.systems),
   standardized_algorithms |->
     Cardinality({a \in Algorithms : a.implementation_status = "standardized"}),
   rotations_24h |-> Len(d.history)]

\* GET /overview (dashboard.js lines 17-119): the fields read from the user's
\* systems, their rotations and the threats, and globalStatistics
GetDashboardOverview(user, level, d) ==
  LET userSystems == {s \in d.systems : s.user_id = user}
      counts == ThreatCounts(d)
      dashboardData ==
        [quantumShieldStatus |-> "dashboard_loaded",
         overview |-> [totalSystems |-> Cardinality(userSystems),
                       quantumReadinessScore |-> SystemsReadinessScore(userSystems),
                       activeThreats |-> counts.total_active_threats,
                       highSeverityThreats |-> counts.high_severity_threats,
                       avgThreatLevel |-> counts.avg_threat_level],
         userSystems |-> userSystems,
         recentRotations |-> RecentRotations(user, d)]
  IN  [status |-> 200,
       body |-> IF MaySeeGlobalStatistics(level)
                THEN dashboardData @@ [globalStatistics |-> GlobalStatistics(d)]
                ELSE dashboardData]

\* threat-detection.js lines 96-105: the threat-triggered rotations of all
\* systems, latest first
RecentMitigations(d) ==
  LET ids == {s.id : s \in d.systems}
  IN  Limit(Reverse(SelectSeq(d.history,
              LAMBDA r : /\ r.rotation_trigger \in {"threat_detected", "emergency"}
                         /\ r.system_config_id \in ids
                         /\ r.new_algorithm_id \in AlgorithmIds)), 10)

\* GET /dashboard (threat-detection.js lines 18-131)
GetThreatDashboard(level, d) ==
  LET activeThreats == {x \in d.threats : x.is_active}
  IN  [status |-> 200,
       body |-> [quantumShieldStatus |-> "threat_dashboard_loaded",
                 activeThreats |-> activeThreats,
                 totalActiveThreats |-> Cardinality(activeThreats),
                 recentMitigations |-> IF MaySeeMitigations(level)
                                       THEN RecentMitigations(d) ELSE <<>>]]

\* the answer of a route to a requester
Respond(route, user, level, id, d) ==
  CASE route = "algorithm" -> GetAlgorithmDetails(level, id, d)
    [] route = "overview"  -> GetDashboardOverview(user, level, d)
    [] route = "threats"   -> GetThreatDashboard(level, d)

NoRequest ==
  [route |-> "none", user |-> "", level |-> 0, id |-> "", answer |-> [status |-> 0]]

HttpIdle ==
  /\ db = [users |-> 0, systems |-> {}, history |-> <<>>, threats |-> {}]
  /\ seenDb = db
  /\ lastRequest = NoRequest

HttpInit ==
  /\ \E s \in SystemSets, th \in ThreatSets :
       db = [users |-> 2, systems |-> s, history |-> <<>>, threats |-> th]
  /\ seenDb = db
  /\ lastRequest = NoRequest

\* a rotation of a system is recorded (part_010 lines 129-141)
RecordRotation(s, trigger) ==
  /\ Len(db.history) < MaxRotations
  /\ s \in db.systems
  /\ db' = [db EXCEPT !.history =
              Append(@, Rotation(s.id, trigger,
                                 IF s.backup_algorithm_id # NULL
                                 THEN s.backup_algorithm_id
                                 ELSE s.current_algorithm_id))]
  /\ UNCHANGED <<seenDb, lastRequest>>

Answer(route, user, level, id) ==
  /\ lastRequest' = [route |-> route, user |-> user, level |-> level, id |-> id,
                     answer |-> Respond(route, user, level, id, db)]
  /\ seenDb' = db
  /\ UNCHANGED db

GetAlgorithmHandler(level, id) == Answer("algorithm", "alice", level, id)
GetOverviewHandler(level) == Answer("overview", "alice", level, "")
GetThreatDashboardHandler(level) == Answer("threats", "alice", level, "")

HttpNext ==
  \/ \E s \in db.systems, trigger \in RotationTriggers :
       RecordRotation(s, trigger) /\ UNCHANGED <<keyVars, schedVars, authVars, engineVars>>
  \/ \E level \in ClearanceLevels, id \in RequestedIds :
       GetAlgorithmHandler(level, id) /\ UNCHANGED <<keyVars, schedVars, authVars, engineVars>>
  \/ \E level \in ClearanceLevels :
       GetOverviewHandler(level) /\ UNCHANGED <<keyVars, schedVars, authVars, engineVars>>
  \/ \E level \in ClearanceLevels :
       GetThreatDashboardHandler(level) /\ UNCHANGED <<keyVars, schedVars, authVars, engineVars>>

\* ================================================== registration and login
\* The users table behind POST /api/auth/register and POST /api/auth/login
\* (backend/routes/auth.js), and the in-memory AuthenticationService of the
\* second server (part_013). A handler runs up to its next awaited query in
\* one step; bcrypt and jwt are settled without touching shared state.

\* users.role is ENUM('admin', 'analyst', 'user')
Roles == {"admin", "analyst", "user"}

\* a field the request body does not carry
Absent == "undefined"

\* !x of the validation lines: the field is missing or the empty string
Missing(x) == x = Absent \/ x = ""

\* const { ..., role = 'user' } = req.body
RoleOf(body) == IF body.role = Absent THEN "user" ELSE body.role

\* a registration that gives every role the clearance of an administrator
RoleClearance_alwaysAdmin(role) == 5

\* { admin: 5, analyst: 3, user: 1 }[role] || 1
RoleClearance(role) ==
  CASE role = "admin"   -> 5
    [] role = "analyst" -> 3
    [] role = "user"    -> 1
    [] OTHER            -> 1

\* bcrypt.hash(password, 14), and bcrypt.compare(password, hash)
BcryptHash(password) == <<"bcrypt", password>>
BcryptCompare(password, hash) == hash = BcryptHash(password)

UserRow(id, username, email, hash, role, level, active) ==
  [id |-> id, username |-> username, email |-> email, password_hash |-> hash,
   role |-> role, quantum_clearance_level |-> level, is_active |-> active]

\* the payload jwt.sign signs and jwt.verify gives back
Token(id, username, email, role, level) ==
  [userId |-> id, username |-> username, email |-> email, role |-> role,
   quantumClearanceLevel |-> level]

\* res.status(status).json(...) of request id: quantumShieldStatus, the token
\* (<<>> when the body has none), and whether a failed query caused it
Reply(id, route, body, status, shieldStatus, token, fault) ==
  [id |-> id, route |-> route, body |-> body, status |-> status,
   quantumShieldStatus |-> shieldStatus, token |-> token, fault |-> fault]

RegisterBody(username, email, password, role) ==
  [username |-> username, email |-> email, password |-> password, role |-> role]

\* bodies of POST /register: two that share an email, two that share a
\* username, passwords of 11 and of 12 characters, an empty password, a
\* missing username, and a role outside the ENUM
RegisterBodies ==
  { RegisterBody("alice", "alice@example.com", "twelve-chars", "admin"),
    RegisterBody("bob", "alice@example.com", "another-12ch", "analyst"),
    RegisterBody("alice", "carol@example.com", "twelve-chars", Absent),
    RegisterBody("dave", "dave@example.com", "elevenchars", "user"),
    RegisterBody("dave", "dave@example.com", "", "user"),
    RegisterBody(Absent, "erin@example.com", "elevenchars", "user"),
    RegisterBody("frank", "frank@example.com", "twelve-chars", "guest") }

LoginBody(email, password) == [email |-> email, password |-> password]

LoginBodies ==
  { LoginBody("alice@example.com", "twelve-chars"),
    LoginBody("alice@example.com", "another-12ch"),
    LoginBody("frank@example.com", "twelve-chars"),
    LoginBody("zoe@example.com", "long-enough-pw"),
    LoginBody("alice@example.com", Absent) }

\* a user registered before, whose row an operator has set inactive
InactiveUser ==
  UserRow(0, "zoe", "zoe@example.com", BcryptHash("long-enough-pw"), "analyst",
          RoleClearance("analyst"), FALSE)

\* request ids in order of arrival
NextRequest == Cardinality(pending) + Cardinality(responses) + 1

\* executeQuery succeeds, or fails while failures are left to inject
AuthQueryOutcomes ==
  IF Cardinality({r \in responses : r.fault}) < MaxFaults THEN {TRUE, FALSE} ELSE {TRUE}

\* SELECT id FROM users WHERE email = ? OR username = ?; the UNIQUE keys of
\* the table reject an INSERT under the same condition
ExistingUser(table, body) ==
  {u \in table : u.email = body.email \/ u.username = body.username}

\* POST /register lines 20-69: the validations, the SELECT, and the 409; a
\* request that passes waits for bcrypt.hash
RegisterCheck(body, ok) ==
  LET id == NextRequest
      reply(status, shieldStatus, fault) ==
        Reply(id, "register", body, status, shieldStatus, <<>>, fault)
  IN  /\ id <= MaxRequests
      /\ IF Missing(body.username) \/ Missing(body.email) \/ Missing(body.password)
         THEN /\ ok
              /\ responses' = responses \cup {reply(400, "validation_failed", FALSE)}
              /\ UNCHANGED pending
         ELSE IF Len(body.password) < MinPasswordLength
         THEN /\ ok
              /\ responses' = responses \cup {reply(400, "password_weak", FALSE)}
              /\ UNCHANGED pending
         ELSE IF ~ok
         THEN /\ responses' = responses \cup {reply(500, "server_error", TRUE)}
              /\ UNCHANGED pending
         ELSE IF ExistingUser(users, body) # {}
         THEN /\ responses' = responses \cup {reply(409, "user_exists", FALSE)}
              /\ UNCHANGED pending
         ELSE /\ pending' = pending \cup {[id |-> id, body |-> body]}
              /\ UNCHANGED responses
      /\ UNCHANGED <<users, serviceUsers>>

\* POST /register lines 71-144: the INSERT and the 201 with its token. The
\* INSERT fails on a duplicate email or username; a role outside the ENUM is
\* an error in strict SQL mode and is stored as '' otherwise. logActivity
\* swallows its own errors.
RegisterInsert(p, ok, strict) ==
  LET body == p.body
      role == RoleOf(body)
      quantumClearanceLevel == RoleClearance(role)
      stored == IF role \in Roles THEN role ELSE ""
      rejected == \/ ExistingUser(users, body) # {}
                  \/ role \notin Roles /\ strict
  IN  /\ p \in pending
      /\ pending' = pending \ {p}
      /\ IF ok /\ ~rejected
         THEN /\ users' = users \cup
                   {UserRow(p.id, body.username, body.email, BcryptHash(body.password),
                            stored, quantumClearanceLevel, TRUE)}
              /\ responses' = responses \cup
                   {Reply(p.id, "register", body, 201, "registration_success",
                          <<Token(p.id, body.username, body.email, role,
                                  quantumClearanceLevel)>>, FALSE)}
         ELSE /\ responses' = responses \cup
                   {Reply(p.id, "register", body, 500, "server_error", <<>>, ~ok)}
              /\ UNCHANGED users
      /\ UNCHANGED serviceUsers

\* POST /login lines 151-272. The UPDATE of last_login and logActivity
\* swallow their own errors and change nothing the response shows.
Login(body, ok) ==
  LET id == NextRequest
      found == {u \in users : u.email = body.email /\ u.is_active}
      reply(status, shieldStatus, token, fault) ==
        Reply(id, "login", body, status, shieldStatus, token, fault)
  IN  /\ id <= MaxRequests
      /\ responses' = responses \cup
           { IF Missing(body.email) \/ Missing(body.password)
             THEN reply(400, "validation_failed", <<>>, FALSE)
             ELSE IF ~ok THEN reply(500, "server_error", <<>>, TRUE)
             ELSE IF found = {} THEN reply(401, "auth_failed", <<>>, FALSE)
             ELSE LET user == CHOOSE u \in found : TRUE
                  IN  IF ~BcryptCompare(body.password, user.password_hash)
                      THEN reply(401, "auth_failed", <<>>, FALSE)
                      ELSE reply(200, "login_success",
                                 <<Token(user.id, user.username, user.email, user.role,
                                         user.quantum_clearance_level)>>, FALSE) }
      /\ ok \/ ~(Missing(body.email) \/ Missing(body.password))
      /\ UNCHANGED <<users, pending, serviceUsers>>

\* AuthenticationService.hashPassword: Buffer.from(password).toString('base64')
HashPassword(password) == <<"base64", password>>

\* user ids: the fixed ids of the default data, and `user_<time>_<random>`
\* of register, held as a name and a number
ServiceUser(id, name, email, password, role) ==
  [id |-> <<id, 0>>, name |-> name, email |-> email, password |-> HashPassword(password),
   role |-> role]

\* initializeDefaultData: the administrator and the two demo users
DefaultUsers ==
  { ServiceUser("admin-user", "Administrator", "admin@quantumshield.com",
                "admin123", "admin"),
    ServiceUser("user-1", "John Doe", "john@quantumshield.com", "password123", "user"),
    ServiceUser("user-2", "Jane Smith", "jane@enterprise.com", "securepass456",
                "enterprise") }

ServiceBody(name, email, password, organizationName) ==
  [name |-> name, email |-> email, password |-> password,
   organizationName |-> organizationName]

\* bodies of the service's register route: passwords of 7, 11 and 12
\* characters, a taken email, a new organization
ServiceRegisterBodies ==
  { ServiceBody("Dave", "dave@example.com", "elevenchars", Absent),
    ServiceBody("Erin", "erin@example.com", "twelve-chars", "Erin Ltd"),
    ServiceBody("Gus", "gus@example.com", "sevench", Absent),
    ServiceBody("John", "john@quantumshield.com", "twelve-chars", Absent) }

\* the register handler of part_013 (lines 398-425) with
\* AuthenticationService.register (142-204) and the login it ends with; the
\* catch answers every error of the service with 400
ServiceRegister(body) ==
  LET id == NextRequest
      taken == \E u \in serviceUsers : u.email = body.email
      userId == <<"user", id>>
      role == IF body.organizationName # Absent THEN "admin" ELSE "user"
  IN  /\ id <= MaxRequests
      /\ IF \/ Missing(body.name) \/ Missing(body.email) \/ Missing(body.password)
            \/ taken
            \/ Len(body.password) < ServiceMinPasswordLength
         THEN /\ responses' = responses \cup
                   {Reply(id, "service-register", body, 400, Absent, <<>>, FALSE)}
              /\ UNCHANGED serviceUsers
         ELSE /\ serviceUsers' = serviceUsers \cup
                   {[id |-> userId, name |-> body.name, email |-> body.email,
                     password |-> HashPassword(body.password), role |-> role]}
              /\ responses' = responses \cup
                   {Reply(id, "service-register", body, 201, Absent,
                          <<[userId |-> userId, session |-> id]>>, FALSE)}
      /\ UNCHANGED <<users, pending>>

AuthIdle ==
  /\ users = {}
  /\ pending = {}
  /\ responses = {}
  /\ serviceUsers = {}

\* both servers have started; the users table is empty or holds a
\* deactivated user
AuthInit ==
  /\ users \in {{}, {InactiveUser}}
  /\ pending = {}
  /\ responses = {}
  /\ serviceUsers = DefaultUsers

AuthNext ==
  \/ \E body \in RegisterBodies, ok \in AuthQueryOutcomes :
       RegisterCheck(body, ok) /\ UNCHANGED <<keyVars, schedVars, httpVars, engineVars>>
  \/ \E p \in pending, ok \in AuthQueryOutcomes, strict \in BOOLEAN :
       RegisterInsert(p, ok, strict) /\ UNCHANGED <<keyVars, schedVars, httpVars, engineVars>>
  \/ \E body \in LoginBodies, ok \in AuthQueryOutcomes :
       Login(body, ok) /\ UNCHANGED <<keyVars, schedVars, httpVars, engineVars>>
  \/ \E body \in ServiceRegisterBodies :
       ServiceRegister(body) /\ UNCHANGED <<keyVars, schedVars, httpVars, engineVars>>

\* ==================================================== algorithm comparison
\* GET /api/crypto/compare (backend/routes/cryptographic.js) over the table
\* cryptographic_algorithms, and POST /api/algorithm-comparison/compare of the
\* second server (algorithm-comparison.ts) over its own catalogue. The
\* requests have passed authenticateToken. A list of ids is held as
\* [kind, parts]: kind "absent" (no such parameter), "string" (for GET the
\* query string's value, whose parts are what split(',') returns; for POST a
\* value that is not an array) or "array".

\* the ids of AlgorithmComparisonService.algorithms
ProfileIds ==
  {"crystals-kyber-512", "crystals-kyber-768", "crystals-dilithium2", "falcon-512",
   "rsa-2048", "ecdsa-p256"}

IdList(kind, parts) == [kind |-> kind, parts |-> parts]

\* values of ?algorithms=: none, "", one id, two ids with and without an empty
\* or repeated entry, three ids with an unknown one, and six entries
CompareQueries ==
  {IdList("absent", <<>>)}
  \cup {IdList("string", <<a>>) : a \in {"", "kyber-768", "rsa-2048"}}
  \cup {IdList("string", <<a, b>>) : a, b \in {"", "kyber-768", "rsa-2048"}}
  \cup {IdList("string", <<"kyber-768", "rsa-2048", "md5">>),
        IdList("string", <<"kyber-768", "rsa-2048", "kyber-768", "rsa-2048",
                           "kyber-768", "md5">>)}

\* bodies of the POST: algorithmIds and whether criteria is given
CompareBodies ==
  { [algorithmIds |-> l, criteria |-> c] :
      l \in {IdList("absent", <<>>), IdList("string", <<"rsa-2048">>),
             IdList("array", <<>>)}
            \cup {IdList("array", <<a>>) : a \in {"", "rsa-2048", "falcon-512"}}
            \cup {IdList("array", <<a, b>>) : a, b \in {"", "rsa-2048", "falcon-512"}}
            \cup {IdList("array", <<"rsa-2048", "md5">>)},
      c \in {"present", "absent"} }

\* a response of a compare handler: the request's id list and criteria
\* ("none" on the GET route), the status, quantumShieldStatus ("" where the
\* body has none), the comparison (<<>> when the body has none), and whether
\* a failed query caused it
CompareReply(id, route, ids, criteria, status, shieldStatus, comparison, fault) ==
  [id |-> id, route |-> route, ids |-> ids, criteria |-> criteria, status |-> status,
   quantumShieldStatus |-> shieldStatus, comparison |-> comparison, fault |-> fault]

\* GET /compare that accepts a single id
GetCompare_noMinimum(q, ok) ==
  LET id == NextRequest
      algorithmIds == SubSeq(q.parts, 1, IF Len(q.parts) < 5 THEN Len(q.parts) ELSE 5)
      comparisonData == {a \in Algorithms : a.id \in Range(algorithmIds)}
      reply(status, shieldStatus, comparison, fault) ==
        CompareReply(id, "compare", q, "none", status, shieldStatus, comparison, fault)
  IN  /\ id <= MaxRequests
      /\ responses' = responses \cup
           { IF q.kind = "absent" \/ q.parts = <<"">>
             THEN reply(400, "validation_failed", <<>>, FALSE)
             ELSE IF ~ok THEN reply(500, "server_error", <<>>, TRUE)
             ELSE IF Cardinality(comparisonData) # Len(algorithmIds)
             THEN reply(404, "algorithm_not_found", <<>>, FALSE)
             ELSE reply(200, "comparison_generated",
                        <<[algorithms |-> {a.id : a \in comparisonData}]>>, FALSE) }
      /\ ok \/ ~(q.kind = "absent" \/ q.parts = <<"">>)
      /\ UNCHANGED <<users, pending, serviceUsers>>

\* GET /compare lines 364-421: !algorithms, split(',').slice(0, 5), the
\* minimum of two, the SELECT ... WHERE id IN (...) whose rows are the
\* distinct ids found, and the metrics of the rows (the recommendations are
\* texts computed from the same rows)
GetCompare(q, ok) ==
  LET id == NextRequest
      algorithmIds == SubSeq(q.parts, 1, IF Len(q.parts) < 5 THEN Len(q.parts) ELSE 5)
      comparisonData == {a \in Algorithms : a.id \in Range(algorithmIds)}
      metrics ==
        [strongestQuantumResistance |->
           SetMax({a.quantum_resistance_level : a \in comparisonData}),
         bestPerformance |-> SetMax({a.performance_score : a \in comparisonData}),
         highestSecurity |-> SetMax({a.security_strength : a \in comparisonData}),
         mostMature |-> Cardinality({a \in comparisonData :
                                       a.implementation_status = "standardized"})]
      reply(status, shieldStatus, comparison, fault) ==
        CompareReply(id, "compare", q, "none", status, shieldStatus, comparison, fault)
      early == q.kind = "absent" \/ q.parts = <<"">> \/ Len(algorithmIds) < 2
  IN  /\ id <= MaxRequests
      /\ responses' = responses \cup
           { IF q.kind = "absent" \/ q.parts = <<"">>
             THEN reply(400, "validation_failed", <<>>, FALSE)
             ELSE IF Len(algorithmIds) < 2
             THEN reply(400, "validation_failed", <<>>, FALSE)
             ELSE IF ~ok THEN reply(500, "server_error", <<>>, TRUE)
             ELSE IF Cardinality(comparisonData) # Len(algorithmIds)
             THEN reply(404, "algorithm_not_found", <<>>, FALSE)
             ELSE reply(200, "comparison_generated",
                        <<[algorithms |-> {a.id : a \in comparisonData},
                           metrics |-> metrics]>>, FALSE) }
      /\ ok \/ ~early
      /\ UNCHANGED <<users, pending, serviceUsers>>

\* the compareAlgorithms handler (lines 526-560) with
\* AlgorithmComparisonService.compareAlgorithms (177-205): an unknown id makes
\* the service throw, and the catch answers 500
PostCompare(body) ==
  LET id == NextRequest
      l == body.algorithmIds
      found == SelectSeq(l.parts, LAMBDA x : x \in ProfileIds)
      reply(status, comparison) ==
        CompareReply(id, "service-compare", l, body.criteria, status, "", comparison,
                     FALSE)
  IN  /\ id <= MaxRequests
      /\ responses' = responses \cup
           { IF l.kind # "array" \/ Len(l.parts) < 2 THEN reply(400, <<>>)
             ELSE IF body.criteria = "absent" THEN reply(400, <<>>)
             ELSE IF Len(found) # Len(l.parts) THEN reply(500, <<>>)
             ELSE reply(200, <<[algorithms |-> l.parts, results |-> found]>>) }
      /\ UNCHANGED <<users, pending, serviceUsers>>

CompareNext ==
  \/ \E q \in CompareQueries, ok \in AuthQueryOutcomes :
       GetCompare(q, ok) /\ UNCHANGED <<keyVars, schedVars, httpVars, engineVars>>
  \/ \E body \in CompareBodies :
       PostCompare(body) /\ UNCHANGED <<keyVars, schedVars, httpVars, engineVars>>

\* ======================================================= threat mitigation
\* POST /api/threats/:id/mitigate (threat-detection.js lines 282-382) and the
\* emergency rotation it records (lines 489-520), on the tables of the
\* scheduler. The handler runs behind authenticateToken and
\* requireRole(['admin', 'analyst']).

MitigationAction(type, newAlgorithmId) == [type |-> type, newAlgorithmId |-> newAlgorithmId]

MitigationBody(actions, targets) == [mitigationActions |-> actions, targetSystems |-> targets]

\* request bodies: an emergency rotation of system 1; one of system 1 and of a
\* system that does not exist; a rotation without newAlgorithmId; an action
\* that records nothing
MitigationBodies ==
  { MitigationBody(<<MitigationAction("key_rotation", "kyber-768")>>, <<1>>),
    MitigationBody(<<MitigationAction("key_rotation", "kyber-768")>>, <<1, 3>>),
    MitigationBody(<<MitigationAction("key_rotation", Absent)>>, <<1>>),
    MitigationBody(<<MitigationAction("security_enhancement", Absent)>>, <<1>>) }

\* the :id of the request: the threats of the table and one that is not there
MitigationThreatIds == {1, FirstTick, 0}

\* the calls of initiateEmergencyKeyRotation the loops of lines 310-322 make,
\* in order
EmergencyCalls(body) ==
  LET rotations == SelectSeq(body.mitigationActions, LAMBDA a : a.type = "key_rotation")
      n == Len(body.targetSystems)
  IN  [q \in 1..(Len(rotations) * n) |->
         [q |-> q,
          systemId |-> body.targetSystems[((q - 1) % n) + 1],
          newAlgorithmId |-> rotations[((q - 1) \div n) + 1].newAlgorithmId]]

\* the INSERT of lines 493-502 satisfies NOT NULL and the foreign keys of
\* key_rotation_history (cryptographic.js lines 580-594)
InsertAccepted(call) ==
  /\ call.systemId \in DOMAIN systems
  /\ call.newAlgorithmId \in AlgorithmIds

\* lines 493-502: the row initiateEmergencyKeyRotation inserts
EmergencyRow(call, t) ==
  HistoryRow(call.systemId, NULL, call.newAlgorithmId, "emergency", t, "initiated")

MitigationReply(id, status, shieldStatus, results) ==
  [id |-> id, status |-> status, quantumShieldStatus |-> shieldStatus,
   results |-> results, fault |-> FALSE]

\* The handler for the token's role, the :id, the body, and the set of its
\* queries that fail: 0 is the SELECT of the threat, q the INSERT of the q-th
\* emergency rotation. A failed INSERT is reported in the results and the
\* handler goes on (lines 512-519); logActivity swallows its own failure.
Mitigate(role, id, body, fails) ==
  LET request == NextRequest
      emergency == EmergencyCalls(body)
      done == SelectSeq(emergency, LAMBDA c : InsertAccepted(c) /\ c.q \notin fails)
      permitted == role \in {"admin", "analyst"}
      found == \E x \in threats : x.id = id
      reply(status, shieldStatus, results) ==
        MitigationReply(request, status, shieldStatus, results)
  IN  /\ ~crashed
      /\ request <= MaxRequests
      /\ faults + Cardinality(fails) <= MaxFaults
      /\ IF ~permitted THEN fails = {}
         ELSE IF 0 \in fails \/ ~found THEN fails \in {{}, {0}}
         ELSE fails \subseteq {c.q : c \in {d \in Range(emergency) : InsertAccepted(d)}}
      /\ faults' = faults + Cardinality(fails)
      /\ IF ~permitted
         THEN /\ responses' = responses \cup {reply(403, "insufficient_role", <<>>)}
              /\ UNCHANGED history
         ELSE IF 0 \in fails
         THEN /\ responses' = responses \cup {reply(500, "mitigation_failed", <<>>)}
              /\ UNCHANGED history
         ELSE IF ~found
         THEN /\ responses' = responses \cup {reply(404, "threat_not_found", <<>>)}
              /\ UNCHANGED history
         ELSE /\ history' = history \o [i \in 1..Len(done) |-> EmergencyRow(done[i], clock)]
              /\ responses' = responses \cup
                   {reply(200, "mitigation_initiated",
                          [q \in 1..Len(emergency) |->
                             IF InsertAccepted(emergency[q]) /\ q \notin fails
                             THEN "initiated" ELSE "failed"])}
      /\ UNCHANGED <<systems, threats, clock, ticks, runs, crashed, errorLog, jsonColumns>>
      /\ UNCHANGED <<users, pending, serviceUsers>>

MitigationNext ==
  \/ SchedNext
  \/ /\ responses = {}
     /\ \E role \in {"analyst", "user"}, id \in MitigationThreatIds,
           body \in MitigationBodies, fails \in SUBSET (0..2) :
          Mitigate(role, id, body, fails) /\ UNCHANGED <<keyVars, httpVars, engineVars>>

\* ================================================ algorithm selection engine
\* The securityAnalyzer of AlgorithmSelectionEngine (threat-detection.js lines
\* 928-970). Scores are held in units of 1/1280, in which every constant of
\* the function is a whole number: 0.05 is 64, 0.1 is 128, 0.2 is 256, 0.3 is
\* 384, 0.4 is 512, 0.6 is 768, 1 is 1280, and classicalSecurityLevel / 256 *
\* 0.2 is the level itself.
ScoreOne == 1280

\* a profile as far as securityAnalyzer reads it: knownVulnerabilities by its
\* length, lastSecurityReview by its age in years
Profile(resistant, quantumLevel, classicalLevel, vulnerabilities, reviewAge, maturity) ==
  [quantumResistant |-> resistant, quantumSecurityLevel |-> quantumLevel,
   classicalSecurityLevel |-> classicalLevel, knownVulnerabilities |-> vulnerabilities,
   reviewAge |-> reviewAge, maturity |-> maturity]

SecurityLevels == {0, 128, 192, 256}

Profiles ==
  { Profile(r, q, c, v, a, m) :
      r \in BOOLEAN, q \in SecurityLevels, c \in {112, 256, 384}, v \in {0, 1, 9},
      a \in {1, 3}, m \in {"standardized", "draft", "experimental", "deprecated", "retired"} }

Requirements == {[quantumResistance |-> b] : b \in BOOLEAN}

MaturityBonus(maturity) ==
  CASE maturity = "standardized" -> 128
    [] maturity = "draft"        -> 64
    [] maturity = "experimental" -> 0
    [] maturity = "deprecated"   -> -384
    [] OTHER                     -> 0

\* a securityAnalyzer that gives the level bonus to the low levels
securityAnalyzer_lowLevelBonus(algorithm, requirements) ==
  LET security == algorithm
      base == IF requirements.quantumResistance
              THEN IF algorithm.quantumResistant
                   THEN 768 + (IF security.quantumSecurityLevel < 128 THEN 256
                               ELSE IF security.quantumSecurityLevel < 192 THEN 128
                               ELSE 0)
                   ELSE 128
              ELSE 512
      score == base + (IF security.classicalSecurityLevel < 256
                       THEN security.classicalSecurityLevel ELSE 256)
                    - security.knownVulnerabilities * 128
                    - (IF security.reviewAge > 2 THEN 128 ELSE 0)
                    + MaturityBonus(algorithm.maturity)
  IN  IF score < 0 THEN 0 ELSE IF score > ScoreOne THEN ScoreOne ELSE score

\* a securityAnalyzer whose base for a resistant algorithm is 0.3
securityAnalyzer_lowResistantBase(algorithm, requirements) ==
  LET security == algorithm
      base == IF requirements.quantumResistance
              THEN IF algorithm.quantumResistant
                   THEN 384 + (IF security.quantumSecurityLevel >= 192 THEN 256
                               ELSE IF security.quantumSecurityLevel >= 128 THEN 128
                               ELSE 0)
                   ELSE 128
              ELSE 512
      score == base + (IF security.classicalSecurityLevel < 256
                       THEN security.classicalSecurityLevel ELSE 256)
                    - security.knownVulnerabilities * 128
                    - (IF security.reviewAge > 2 THEN 128 ELSE 0)
                    + MaturityBonus(algorithm.maturity)
  IN  IF score < 0 THEN 0 ELSE IF score > ScoreOne THEN ScoreOne ELSE score

\* lines 929-969
securityAnalyzer(algorithm, requirements) ==
  LET security == algorithm
      base == IF requirements.quantumResistance
              THEN IF algorithm.quantumResistant
                   THEN 768 + (IF security.quantumSecurityLevel >= 192 THEN 256
                               ELSE IF security.quantumSecurityLevel >= 128 THEN 128
                               ELSE 0)
                   ELSE 128
              ELSE 512
      score == base + (IF security.classicalSecurityLevel < 256
                       THEN security.classicalSecurityLevel ELSE 256)
                    - security.knownVulnerabilities * 128
                    - (IF security.reviewAge > 2 THEN 128 ELSE 0)
                    + MaturityBonus(algorithm.maturity)
  IN  IF score < 0 THEN 0 ELSE IF score > ScoreOne THEN ScoreOne ELSE score

NoScore == [called |-> FALSE, algorithm |-> Profile(FALSE, 0, 0, 0, 0, ""),
            requirements |-> [quantumResistance |-> FALSE], score |-> 0]

EngineIdle == scored = NoScore

\* scoreAlgorithm's call of this.aiModels.securityAnalyzer (line 868)
AnalyzeSecurity(algorithm, requirements) ==
  scored' = [called |-> TRUE, algorithm |-> algorithm, requirements |-> requirements,
             score |-> securityAnalyzer(algorithm, requirements)]

EngineNext ==
  \E algorithm \in Profiles, requirements \in Requirements :
     AnalyzeSecurity(algorithm, requirements)
       /\ UNCHANGED <<keyVars, schedVars, httpVars, authVars>>

\* ------------------------------------------------------- specifications
\* the key rotation service and its handlers
Init == InitKeys /\ SchedIdle /\ HttpIdle /\ AuthIdle /\ EngineIdle

Next == KeyNext

Spec == Init /\ [][Next]_vars

\* the background jobs
SchedulerInit == InitKeys /\ SchedInit /\ HttpIdle /\ AuthIdle /\ EngineIdle

SchedulerNext == SchedNext

SchedulerSpec == SchedulerInit /\ [][SchedulerNext]_vars

\* the clearance-gated reads
ClearanceInit == InitKeys /\ SchedIdle /\ HttpInit /\ AuthIdle /\ EngineIdle

ClearanceNext == HttpNext

ClearanceSpec == ClearanceInit /\ [][ClearanceNext]_vars

\* registration and login
AccountsInit == InitKeys /\ SchedIdle /\ HttpIdle /\ AuthInit /\ EngineIdle

AccountsNext == AuthNext

AccountsSpec == AccountsInit /\ [][AccountsNext]_vars

\* the compare handlers
CompareInit == InitKeys /\ SchedIdle /\ HttpIdle /\ AuthIdle /\ EngineIdle

CompareSpec == CompareInit /\ [][CompareNext]_vars

\* the selection engine's security score
EngineSpec == Init /\ [][EngineNext]_vars

\* the mitigation handler beside the scheduler's jobs, on one database: the
\* first system table, no history, the threat of 24 hours ago. The run is
\* followed through one tick of the jobs and one failing query (the counters
\* start one below their bounds) and one request. The timers and the callbacks
\* of the queries do run: the steps of the jobs are weakly fair.
MitigationInit ==
  /\ InitKeys /\ HttpIdle /\ AuthIdle /\ EngineIdle
  /\ systems = <<SystemRow(TRUE, 900, "rsa-2048", "kyber-768"),
                 SystemRow(FALSE, 900, "rsa-2048", NULL)>>
  /\ history = <<>>
  /\ threats = {ThreatRow(1, 4, {"rsa-2048", "ecc-p256"}, FirstTick - ThreatWindow, TRUE)}
  /\ clock = StartTime
  /\ ticks = MaxTicks - 1
  /\ faults = MaxFaults - 1
  /\ runs = [j \in Jobs |-> IdleRun]
  /\ crashed = FALSE
  /\ errorLog = {}
  /\ jsonColumns = "text"

MitigationSpec == MitigationInit /\ [][MitigationNext]_vars /\ WF_vars(SchedNext)

\* ------------------------------------------------- key rotation properties
\* the catalog has a quantum-resistant algorithm for the purpose
HasQuantumOption(purpose) == Len(QuantumOptions(purpose)) > 0

\* the rotations the service has completed on the key
RotationsOf(keyId) == {r \in rotationLog : r.old = keyId}

\* the keys reached from the keys of S by following completed rotations n times
RECURSIVE Lineage(_, _)
Lineage(S, n) ==
  IF n = 0 THEN S
  ELSE Lineage(S \cup {r.new : r \in {q \in rotationLog : q.old \in S}}, n - 1)

\* the keys that are not the successor of a rotation
OriginalKeys ==
  {k \in DOMAIN keys : /\ \A r \in rotationLog : r.new # k
                       /\ \A c \in calls : c.newKey # k}

\* C1: every key rotateKey has returned uses an algorithm of the
\* quantum-resistant catalog with the rotated key's purpose whenever the catalog
\* has one for that purpose, and keeps the rotated key's algorithm only when
\* the catalog has none
C1_RotationSelectsQuantumResistant ==
  \A r \in rotationLog :
    LET old == keys[r.old]
        new == keys[r.new]
    IN  /\ new.purpose = old.purpose
        /\ HasQuantumOption(old.purpose) =>
             /\ new.quantumResistant
             /\ \E i \in DOMAIN quantumAlgorithms :
                  /\ quantumAlgorithms[i].name = new.algorithm
                  /\ quantumAlgorithms[i].purpose = old.purpose
        /\ ~HasQuantumOption(old.purpose) => new.algorithm = old.algorithm

\* a classical signing key has been rotated to a quantum-resistant successor
C1_Witness ==
  \E r \in rotationLog :
    /\ ~keys[r.old].quantumResistant
    /\ HasQuantumOption(keys[r.old].purpose)
    /\ keys[r.new].quantumResistant

\* the history list of a key has one date per completed rotation of that key,
\* in non-decreasing order
HistoryPerKey ==
  \A k \in DOMAIN keys :
    LET h == getRotationHistory(k)
    IN  /\ Len(h) = Cardinality(RotationsOf(k))
        /\ \A i, j \in DOMAIN h : i < j => h[i] <= h[j]

\* C2 (as the code has it): the rotation history is append-only and kept per
\* rotated key id: no step changes or removes a recorded date, N completed
\* rotateKey calls on one key id leave a list of length N under that id, and
\* its dates are non-decreasing
C2_HistoryAppendOnlyPerKey ==
  [][/\ HistoryPerKey'
     /\ \A k \in DOMAIN rotationHistory :
          /\ k \in DOMAIN rotationHistory'
          /\ Len(rotationHistory'[k]) >= Len(rotationHistory[k])
          /\ SubSeq(rotationHistory'[k], 1, Len(rotationHistory[k]))
               = rotationHistory[k]]_vars

\* one key has been rotated twice and its list holds both dates
C2_Witness ==
  \E k \in DOMAIN keys :
    /\ Cardinality(RotationsOf(k)) = 2
    /\ Len(getRotationHistory(k)) = 2

\* C2 (as stated): the rotations along the chain of descendants of an original
\* key leave a history list of that length for the original key, with strictly
\* increasing dates
C2_HistoryAlongChain ==
  \A k \in OriginalKeys :
    LET h == getRotationHistory(k)
        chain == Lineage({k}, Cardinality(DOMAIN keys))
    IN  /\ Len(h) = Cardinality({r \in rotationLog : r.old \in chain})
        /\ \A i, j \in DOMAIN h : i < j => h[i] < h[j]

\* C3: a key rotateKey has rotated is still in the store, and its expiresAt is
\* the time of its latest rotation plus 7 days
C3_OldKeyKeptForGracePeriod ==
  \A r \in rotationLog :
    /\ r.old \in DOMAIN keys
    /\ keys[r.old].expiresAt =
         SeqMax(getRotationHistory(r.old)) + 7 * 24

\* a key rotated after the clock has advanced, whose expiration moved
C3_Witness ==
  \E r \in rotationLog :
    /\ r.at > 0
    /\ keys[r.old].expiresAt = r.at + 7 * 24
    /\ keys[r.old].expiresAt #
         calculateExpirationDate(keys[r.old].algorithm, keys[r.old].purpose,
                                 keys[r.old].createdAt)

\* C4: an updateKeyUsage call that records an operation on a key whose usage
\* count thereby reaches the usage threshold, or whose scheduled rotation time
\* has come, has entered rotateKey and stored the successor key before it
\* returns
C4_UsageTriggersRotation ==
  [][\A k \in DOMAIN keys :
       ( /\ keys'[k].usage.operationsCount = keys[k].usage.operationsCount + 1
         /\ \/ keys'[k].usage.operationsCount >= UsageThresholdOf(keys[k])
            \/ now >= keys[k].rotationSchedule.nextRotation )
       => \E c \in calls' \ calls :
            /\ c.keyId = k
            /\ c.caller = "usage"
            /\ c.newKey \in DOMAIN keys' \ DOMAIN keys]_vars

\* the operation that reaches the usage threshold has rotated the key
C4_Witness ==
  \E r \in rotationLog :
    /\ r.reason = "usage"
    /\ keys[r.old].usage.operationsCount = UsageThresholdOf(keys[r.old])
    /\ r.at < keys[r.old].rotationSchedule.nextRotation

\* C9: a rotate request that fails names a key id that is not in the store; it
\* is answered 500 or 404 after one call of rotateKey, and it creates no key,
\* writes no rotation-history entry, arms no timer and starts no rotation
C9_UnknownKeyRotationFails ==
  [][( /\ Len(errorResponses') = Len(errorResponses) + 1
       /\ errorResponses'[Len(errorResponses')].route = "rotate" )
     => LET res == errorResponses'[Len(errorResponses')]
        IN  /\ res.keyId \notin DOMAIN keys
            /\ res.status \in {404, 500}
            /\ res.attempts = 1
            /\ keys' = keys
            /\ rotationHistory' = rotationHistory
            /\ rotationQueue' = rotationQueue
            /\ timers' = timers
            /\ calls' = calls
            /\ rotationLog' = rotationLog]_vars

\* a rotate request for an unknown id has failed on a store that holds keys
C9_Witness ==
  /\ DOMAIN keys # {}
  /\ \E i \in DOMAIN errorResponses :
       /\ errorResponses[i].route = "rotate"
       /\ errorResponses[i].keyId \notin DOMAIN keys

\* ------------------------------------------------- scheduler properties
\* the systems a run's query found with auto-rotation enabled
EnabledSeen(run) ==
  {s \in DOMAIN run.seen.systems : run.seen.systems[s].auto_rotation_enabled}

\* by the history the run's query read, the system has no completed rotation,
\* or at time t its latest completed rotation is at least its interval old
DueBySnapshot(run, s, t) ==
  \A i \in DOMAIN run.seen.history :
    ( /\ run.seen.history[i].system_config_id = s
      /\ run.seen.history[i].completion_status = "completed" )
    => t - run.seen.history[i].rotation_timestamp
         >= run.seen.systems[s].key_rotation_interval

\* by the tables the run's queries read, an active threat of severity 4 or
\* more, created in the 24 hours before the query, lists the system's algorithm
ThreatenedBySnapshot(run, s) ==
  \E x \in run.seen.threats :
    /\ x.is_active
    /\ x.severity_level >= 4
    /\ x.created_at >= run.seen.threatsAt - 24 * 3600
    /\ run.seen.systems[s].current_algorithm_id \in x.affected_algorithms

\* C5: in a run of the 15-minute job, rotation is invoked with trigger
\* 'scheduled' for exactly the systems that its query found with auto-rotation
\* enabled and that, when the loop reaches them, have no completed rotation or
\* a latest completed rotation at least their interval old; a run whose query
\* succeeded looks at every enabled system, and no run looks at a disabled one
C5_ScheduledJobRotatesDueSystems ==
  LET run == runs["scheduled"]
  IN  /\ \A e \in run.examined :
           /\ e.system \in EnabledSeen(run)
           /\ e.invoked <=> DueBySnapshot(run, e.system, e.at)
      /\ run.ended = "finished" =>
           \A s \in EnabledSeen(run) : \E e \in run.examined : e.system = s
      /\ run.row # 0 =>
           /\ history[run.row].rotation_trigger = "scheduled"
           /\ history[run.row].system_config_id = run.sys
           /\ \E e \in run.examined : e.system = run.sys /\ e.invoked
      /\ \A i \in DOMAIN history :
           history[i].rotation_trigger = "scheduled" =>
             systems[history[i].system_config_id].auto_rotation_enabled

\* a finished run of the 15-minute job that rotated one system and passed
\* over another, enabled one that was not due
C5_Witness ==
  LET run == runs["scheduled"]
  IN  /\ run.ended = "finished"
      /\ \E e \in run.examined : e.invoked
      /\ \E e \in run.examined : ~e.invoked
      /\ \E i \in DOMAIN history :
           /\ history[i].rotation_trigger = "scheduled"
           /\ history[i].rotation_timestamp >= FirstTick

\* C6: in a run of the 5-minute job, rotation is invoked with trigger
\* 'threat_detected' for exactly the auto-rotation-enabled systems whose
\* current algorithm, as the run read it, is in the affected-algorithm set of
\* an active threat of severity 4 or more created in the last 24 hours: the
\* run invokes rotation for no other system, and a run that has ended after
\* both its queries were answered has invoked it for each of these
C6_ThreatJobRotatesAffectedSystems ==
  LET run == runs["threat"]
  IN  /\ \A e \in run.examined :
           /\ e.system \in EnabledSeen(run)
           /\ e.invoked <=> ThreatenedBySnapshot(run, e.system)
      /\ (run.ended \in {"finished", "aborted"} /\ run.seen.at = run.startedAt) =>
           \A s \in EnabledSeen(run) :
             ThreatenedBySnapshot(run, s) =>
               \E e \in run.examined : e.system = s /\ e.invoked
      /\ run.row # 0 =>
           /\ history[run.row].rotation_trigger = "threat_detected"
           /\ history[run.row].system_config_id = run.sys
           /\ \E e \in run.examined : e.system = run.sys /\ e.invoked

\* C7: a rotation-history row is created with status 'initiated'; afterwards
\* its status changes only from 'initiated' to 'in_progress', from
\* 'in_progress' to 'completed', or to 'failed' in the catch block of the
\* rotation that wrote it; nothing else of a row changes
C7_RotationStatusTransitions ==
  [][/\ Len(history') >= Len(history)
     /\ \A i \in DOMAIN history' :
          IF i \notin DOMAIN history
          THEN history'[i].completion_status = "initiated"
          ELSE /\ history'[i] = [history[i] EXCEPT !.completion_status =
                                   history'[i].completion_status]
               /\ \/ history'[i].completion_status = history[i].completion_status
                  \/ /\ history[i].completion_status = "initiated"
                     /\ history'[i].completion_status = "in_progress"
                  \/ /\ history[i].completion_status = "in_progress"
                     /\ history'[i].completion_status = "completed"
                  \/ /\ history'[i].completion_status = "failed"
                     /\ \E j \in RotationJobs :
                          runs[j].pc = "sim_failed" /\ runs[j].row = i]_vars

\* the jobs have written a row that is completed and a row that failed
C7_Witness ==
  /\ \E i \in DOMAIN history :
       /\ history[i].rotation_timestamp >= FirstTick
       /\ history[i].completion_status = "completed"
  /\ \E i \in DOMAIN history :
       /\ history[i].rotation_timestamp >= FirstTick
       /\ history[i].completion_status = "failed"

\* C8: no error of a background job's run leaves the run: the process is never
\* ended by one, a run an error has ended has logged it, and every cron tick
\* starts a run of each job whose pattern matches, whatever failed before
C8_JobErrorsSwallowed ==
  [][/\ ~crashed'
     /\ \A j \in Jobs :
          runs'[j].ended = "aborted" =>
            \E l \in errorLog' : l.job = j /\ l.at >= runs'[j].startedAt
     /\ ticks' = ticks + 1 =>
          \A j \in CronDue(clock') :
            /\ runs'[j].startedAt = clock'
            /\ runs'[j].ended # "never"]_vars

\* a job has logged an error in one run and finished a later run
C8_Witness ==
  \E j \in Jobs, l \in errorLog :
    /\ l.job = j
    /\ runs[j].startedAt > l.at
    /\ runs[j].ended = "finished"
    /\ j = "threat" => runs[j].seen.threatsAt > l.at

\* ------------------------------------------------- clearance properties
\* the clearance level a route asks for its additional field
RequiredLevel(route) == IF route = "threats" THEN 2 ELSE 3

\* the answer carries the route's additional field with data in it
CarriesGatedField(route, answer) ==
  CASE route = "algorithm" -> answer.status = 200 /\ answer.body.usageStats # <<>>
    [] route = "overview"  -> "globalStatistics" \in DOMAIN answer.body
    [] route = "threats"   -> answer.body.recentMitigations # <<>>

\* what the route reads for the fields it gives to every requester
UngatedView(route, user, d) ==
  CASE route = "algorithm" -> <<>>
    [] route = "overview"  ->
         <<{s \in d.systems : s.user_id = user}, d.threats,
           SelectSeq(d.history,
             LAMBDA r : r.system_config_id \in
                          {s.id : s \in {x \in d.systems : x.user_id = user}})>>
    [] route = "threats"   -> <<d.threats>>

\* databases that differ in the users, the systems and the rotations
OtherDatabases ==
  [users : {2, 5},
   systems : SystemSets \cup {{}, {BobSystem}},
   history : { <<>>,
               <<Rotation(1, "threat_detected", "kyber-768")>>,
               <<Rotation(2, "threat_detected", "kyber-768")>>,
               <<Rotation(3, "scheduled", "rsa-2048"),
                 Rotation(2, "threat_detected", "kyber-768")>> },
   threats : ThreatSets]

CredentialsOf(body) ==
  {u \in users : /\ u.email = body.email
                 /\ u.is_active
                 /\ BcryptCompare(body.password, u.password_hash)}

SameAccount(a, b) == a.email = b.email \/ a.username = b.username

\* C12: of two register requests with the same email or the same username,
\* at most one creates a user, and when one has created a user the other,
\* if it passes validation and the database answers its queries, is answered
\* 409, however their steps interleave
C12_DuplicateRegistrationConflict ==
  \A r1, r2 \in responses :
    ( /\ r1.route = "register" /\ r2.route = "register"
      /\ r1.id # r2.id
      /\ SameAccount(r1.body, r2.body)
      /\ r1.status = 201
      /\ r2.status # 400
      /\ ~r2.fault )
    => r2.status = 409

\* C19: a register request that carries every field and a password shorter
\* than 12 characters is answered 400, with status password_weak on the route
\* that reports a quantumShieldStatus, and creates no user
C19_ShortPasswordRejected ==
  \A r \in responses :
    LET name == IF r.route = "register" THEN r.body.username ELSE r.body.name
    IN  ( /\ r.route \in {"register", "service-register"}
          /\ ~Missing(name) /\ ~Missing(r.body.email) /\ ~Missing(r.body.password)
          /\ Len(r.body.password) < 12 )
        => /\ r.status = 400
           /\ r.route = "register" => r.quantumShieldStatus = "password_weak"
           /\ \A u \in users : u.id # r.id
           /\ \A u \in serviceUsers : u.email # r.body.email

\* ---------------------------------------------------------- key properties
\* the trigger types of the key a createKey request has just stored in ks
CreatedTriggerTypes(ks) ==
  LET tr == ks[Cardinality(DOMAIN ks)].rotationSchedule.triggers
  IN  [i \in DOMAIN tr |-> tr[i].type]

CreatedTrigger(ks, i) == ks[Cardinality(DOMAIN ks)].rotationSchedule.triggers[i]

ThreeTriggers == <<"time-based", "usage-count", "threat-level">>

PurposeUsageThreshold(purpose) ==
  CASE purpose = "encryption" -> 1000000
    [] purpose = "signing" -> 100000
    [] purpose = "key-exchange" -> 10000

\* C13 (as the code has it): the key a createKey request stores carries the
\* triggers time-based, usage-count (threshold of its purpose) and threat-level
\* (70 percent), in this order, followed by a compliance-requirement trigger
\* exactly when the organization id contains "enterprise" or "corp"
C13_TriggersByOrganization ==
  [][\A body \in KeyRequests :
       (body.keySize # 0 /\ CreateKeyHandler(body)) =>
         /\ CreatedTrigger(keys', 2).threshold = PurposeUsageThreshold(body.purpose)
         /\ CreatedTrigger(keys', 3).threshold = 70
         /\ CreatedTriggerTypes(keys') =
              IF \/ Includes(body.organizationId, <<"e","n","t","e","r","p","r","i","s","e">>)
                 \/ Includes(body.organizationId, <<"c","o","r","p">>)
              THEN Append(ThreeTriggers, "compliance-requirement")
              ELSE ThreeTriggers]_vars

\* a store that holds a key with three triggers and a key with four
C13_Witness ==
  \E a, b \in DOMAIN keys :
     /\ Len(keys[a].rotationSchedule.triggers) = 3
     /\ Len(keys[b].rotationSchedule.triggers) = 4
     /\ HasTrigger(keys[b], "compliance-requirement")

\* C13 as the specification words it: the compliance-requirement trigger is
\* attached only when the organization id contains "enterprise"
C13_ComplianceOnlyForEnterprise ==
  [][\A body \in KeyRequests :
       (body.keySize # 0 /\ CreateKeyHandler(body)) =>
         /\ Len(CreatedTriggerTypes(keys')) \in {3, 4}
         /\ SubSeq(CreatedTriggerTypes(keys'), 1, 3) = ThreeTriggers
         /\ ("compliance-requirement" \in Range(CreatedTriggerTypes(keys')) =>
               Includes(body.organizationId,
                        <<"e","n","t","e","r","p","r","i","s","e">>))]_vars

\* C14: a completed rotation of a signing key created with RSA-2048 returned a
\* signing key whose algorithm is one of CRYSTALS-Dilithium, FALCON and
\* SPHINCS+, namely the first of the signing preference order
\* (CRYSTALS-Dilithium, FALCON, SPHINCS+) that the catalog lists for signing
C14_RsaSigningKeyRotatesToPreferred ==
  \A e \in rotationLog :
     (keys[e.old].algorithm = "RSA-2048" /\ keys[e.old].purpose = "signing") =>
        /\ keys[e.new].algorithm \in {"CRYSTALS-Dilithium", "FALCON", "SPHINCS+"}
        /\ keys[e.new].algorithm = "CRYSTALS-Dilithium"
        /\ keys[e.new].purpose = "signing"
        /\ keys[e.new].quantumResistant

\* a rotation of an RSA-2048 signing key, asked for over HTTP, has returned
C14_Witness ==
  \E e \in rotationLog :
     /\ keys[e.old].algorithm = "RSA-2048" /\ keys[e.old].purpose = "signing"
     /\ e.reason = "http"
     /\ e.new \in DOMAIN keys

\* the keys no rotation has given a grace expiration yet: their expiresAt is
\* the one createKey computed
Unrotated == {id \in DOMAIN keys : \A e \in rotationLog : e.old # id}

Lifetime(key) == key.expiresAt - key.createdAt

\* C15: the key createKey has just stored expires strictly after its creation,
\* and against every stored key of the same purpose that still has the
\* expiration createKey gave it, the quantum-resistant key of the two has the
\* strictly longer lifetime
C15_ExpirationAfterCreation ==
  [][\A id \in DOMAIN keys' \ DOMAIN keys :
       /\ keys'[id].expiresAt > keys'[id].createdAt
       /\ \A other \in Unrotated :
            (keys[other].purpose = keys'[id].purpose
               /\ keys'[id].quantumResistant /\ ~keys[other].quantumResistant)
            => Lifetime(keys'[id]) > Lifetime(keys[other])
       /\ \A other \in Unrotated :
            (keys[other].purpose = keys'[id].purpose
               /\ ~keys'[id].quantumResistant /\ keys[other].quantumResistant)
            => Lifetime(keys'[id]) < Lifetime(keys[other])]_vars

\* the store holds a quantum-resistant and a legacy key of one purpose, both
\* with the expiration createKey gave them
C15_Witness ==
  \E a, b \in Unrotated :
     /\ keys[a].purpose = keys[b].purpose
     /\ keys[a].quantumResistant /\ ~keys[b].quantumResistant
     /\ a < b
     /\ Lifetime(keys[a]) > Lifetime(keys[b])

\* C16: every key of the store has its next rotation at or after its creation
C16_NextRotationNotBeforeCreation ==
  \A id \in DOMAIN keys :
     keys[id].rotationSchedule.nextRotation >= keys[id].createdAt

\* a key is in the store when the clock has reached its next rotation
C16_Witness ==
  \E id \in DOMAIN keys :
     /\ now >= keys[id].rotationSchedule.nextRotation
     /\ keys[id].rotationSchedule.nextRotation > keys[id].createdAt

\* C17: the metrics window of every key holds at most 100 samples, and they
\* are the latest of the samples recorded on the key, oldest first: the window
\* ends with the key's last sample and its arrival numbers are consecutive
C17_MetricsWindowHoldsLatestSamples ==
  \A id \in DOMAIN keys :
     LET usage == keys[id].usage
         window == usage.performanceMetrics
     IN  /\ Len(window) <= 100
         /\ Len(window) = IF usage.operationsCount < 100
                          THEN usage.operationsCount ELSE 100
         /\ \A i \in DOMAIN window :
              window[i].seq = usage.operationsCount - Len(window) + i

\* an updateKeyUsage request has pushed a sample on a full window: the window
\* still has 100 samples and the oldest of them is not the key's first
C17_Witness ==
  \E id \in DOMAIN keys :
     /\ Len(keys[id].usage.performanceMetrics) = 100
     /\ keys[id].usage.performanceMetrics[1].seq > 1
     /\ keys[id].usage.operationsCount = UsageThresholdOf(keys[id])

\* ---------------------------------------------------- threat store properties
\* C18: when storeThreatIntelligence ends on a threat whose id is already in
\* threat_intelligence and the query met no other failure, the stored rows are
\* what they were, nothing is logged and the scan finishes; when the query
\* fails otherwise, the table is unchanged, the error reaches performThreatScan
\* (whose catch logs it) and the scan is aborted
C18_DuplicateThreatIgnored ==
  [][(runs["monitor"].pc = "store" /\ runs'["monitor"].pc # "store") =>
       LET id == runs["monitor"].startedAt
           duplicate == \E x \in threats : x.id = id
           failed == faults' # faults
       IN  /\ (duplicate /\ ~failed) =>
                /\ threats' = threats
                /\ errorLog' = errorLog
                /\ crashed' = crashed
                /\ runs'["monitor"].ended = "finished"
           /\ failed =>
                /\ threats' = threats
                /\ [job |-> "monitor", by |-> "performThreatScan", at |-> clock]
                     \in errorLog'
                /\ runs'["monitor"].ended = "aborted"
           /\ (~duplicate /\ ~failed) =>
                \E x \in threats' \ threats : x.id = id]_vars

\* a scan has finished without a logged error although the threat it detected
\* (severity 5) met a stored row of its id, which still has its severity 2
C18_Witness ==
  /\ runs["monitor"].ended = "finished"
  /\ runs["monitor"].found = 5
  /\ \E x \in threats : x.id = runs["monitor"].startedAt /\ x.severity_level = 2
  /\ \A e \in errorLog : e.job # "monitor"

\* ------------------------------------------------------ compare properties
\* the number of ids a compare request lists
ListedIds(l) == IF l.kind = "string" /\ l.parts = <<"">> THEN 0 ELSE Len(l.parts)

C21_SecurityScoreBoundedAndMonotone ==
  scored.called =>
     /\ 0 <= scored.score /\ scored.score <= ScoreOne
     /\ \A q \in SecurityLevels :
          q >= scored.algorithm.quantumSecurityLevel =>
            securityAnalyzer([scored.algorithm EXCEPT !.quantumSecurityLevel = q],
                             scored.requirements) >= scored.score

\* a call whose score is strictly inside the range and strictly below the
\* score of the same profile at level 192
C21_Witness ==
  /\ scored.called
  /\ 0 < scored.score /\ scored.score < ScoreOne
  /\ scored.algorithm.quantumSecurityLevel = 0
  /\ securityAnalyzer([scored.algorithm EXCEPT !.quantumSecurityLevel = 192],
                      scored.requirements) > scored.score

\* C22: for a quantum-resistant profile, the score of a call with
\* requirements.quantumResistance = true is not lower than the score of the
\* same profile with quantumResistance = false, and the score of a call with
\* false is not higher than the score with true
C22_ResistanceRequirementNeverLowersScore ==
  (scored.called /\ scored.algorithm.quantumResistant) =>
     IF scored.requirements.quantumResistance
     THEN scored.score >=
            securityAnalyzer(scored.algorithm, [quantumResistance |-> FALSE])
     ELSE scored.score <=
            securityAnalyzer(scored.algorithm, [quantumResistance |-> TRUE])

\* a resistant profile of level 0 scored with quantumResistance = true, whose
\* score is strictly above its score with quantumResistance = false
C22_Witness ==
  /\ scored.called
  /\ scored.algorithm.quantumResistant
  /\ scored.algorithm.quantumSecurityLevel = 0
  /\ scored.requirements.quantumResistance
  /\ scored.score > securityAnalyzer(scored.algorithm, [quantumResistance |-> FALSE])

AutomaticRotations(id) ==
  {e.new : e \in {x \in rotationLog : x.old = id /\ x.reason \in {"usage", "timer"}}}
  \cup {c.newKey : c \in {x \in calls : x.keyId = id /\ x.caller \in {"usage", "timer"}}}

\* C25: no key has had more than one successor created for it by
\* updateKeyUsage or by the deferred rotation check
C25_AutomaticRotationAtMostOnce ==
  \A id \in DOMAIN keys : Cardinality(AutomaticRotations(id)) <= 1

\* C29: a rotateKey call that returns leaves the old key's expiresAt where it
\* was or moves it earlier
C29_RotationNeverExtendsExpiration ==
  [][\A c \in calls :
       calls' = calls \ {c} => keys'[c.keyId].expiresAt <= keys[c.keyId].expiresAt]_vars

\* the trigger types of a key's schedule
TriggerTypes(key) ==
  {key.rotationSchedule.triggers[i].type : i \in DOMAIN key.rotationSchedule.triggers}

\* C30: the successor of every completed rotation has the trigger types of the
\* key it replaces
C30_SuccessorKeepsTriggerTypes ==
  \A e \in rotationLog : TriggerTypes(keys[e.new]) = TriggerTypes(keys[e.old])

\* C26: every user row POST /register has created (the rows with a request's
\* id) has role 'user' and clearance level 1 at most, and so does every token
\* a registration returned
C26_RegistrationGrantsNoPrivilege ==
  /\ \A u \in users :
        u # InactiveUser => u.role = "user" /\ u.quantum_clearance_level <= 1
  /\ \A r \in responses :
        (r.route = "register" /\ r.status = 201) =>
           r.token[1].role = "user" /\ r.token[1].quantumClearanceLevel <= 1

\* ------------------------------------------------- scheduler race properties
\* the jobs' runs of one tick have both called performKeyRotation for system s
BothSelected(s) ==
  /\ runs["scheduled"].startedAt = runs["threat"].startedAt
  /\ \E x \in runs["scheduled"].examined : x.system = s /\ x.invoked
  /\ \E x \in runs["threat"].examined : x.system = s /\ x.invoked

\* the rows of system s that trigger has inserted since time t
RowsSince(s, trigger, t) ==
  {i \in DOMAIN history : /\ history[i].system_config_id = s
                          /\ history[i].rotation_trigger = trigger
                          /\ history[i].rotation_timestamp >= t}

\* C24: when the scheduled job and the threat job of one tick have both
\* selected a system, both runs are over and no query has failed, the history
\* holds a row of each job for the system, inserted in that tick, and both
\* rows are completed
C24_BothJobsRotateSameSystem ==
  \A s \in DOMAIN systems :
     (BothSelected(s) /\ faults = 0
        /\ runs["scheduled"].pc = "idle" /\ runs["threat"].pc = "idle") =>
        /\ \E i \in RowsSince(s, "scheduled", runs["scheduled"].startedAt) :
             history[i].completion_status = "completed"
        /\ \E j \in RowsSince(s, "threat_detected", runs["threat"].startedAt) :
             history[j].completion_status = "completed"

\* both jobs have rotated system 1 in the tick of the first hour
C24_Witness ==
  /\ BothSelected(1)
  /\ runs["scheduled"].pc = "idle" /\ runs["threat"].pc = "idle"
  /\ RowsSince(1, "scheduled", FirstTick) # {}
  /\ RowsSince(1, "threat_detected", FirstTick) # {}
  /\ \A i \in RowsSince(1, "scheduled", FirstTick)
             \cup RowsSince(1, "threat_detected", FirstTick) :
        history[i].completion_status = "completed"

\* the threats that select the system of a threat-triggered history row at
\* the time of the row: active, severe, recent and affecting the algorithm
\* the system had
Triggering(row) ==
  {x \in RecentThreats(threats, row.rotation_timestamp) :
     /\ x.created_at <= row.rotation_timestamp
     /\ row.old_algorithm_id \in x.affected_algorithms}

\* C27: after a completed threat-triggered rotation of a system, a rotation
\* of the same system by the threat job of a later tick answers a threat that
\* the completed one has not answered
C27_ThreatRotatesSystemOnce ==
  \A i \in DOMAIN history : \A j \in DOMAIN history :
     ( /\ history[i].rotation_trigger = "threat_detected"
       /\ history[j].rotation_trigger = "threat_detected"
       /\ history[i].system_config_id = history[j].system_config_id
       /\ history[i].completion_status = "completed"
       /\ history[j].rotation_timestamp >= history[i].rotation_timestamp + CronPeriod ) =>
       Triggering(history[j]) \ Triggering(history[i]) # {}

\* ------------------------------------------------ rotation outcome properties
\* row i of key_rotation_history has been inserted and is still 'initiated'
InitiatedRowAt(i) ==
  i \in DOMAIN history /\ history[i].completion_status = "initiated"

\* row i of key_rotation_history has reached a final status
EndedRowAt(i) ==
  i \in DOMAIN history /\ history[i].completion_status \in {"completed", "failed"}

\* the row numbers a run of MaxTicks ticks and MaxRequests requests can fill
HistoryRowNumbers == 1..(MaxTicks + MaxRequests)

\* C28: every row of key_rotation_history that is inserted as 'initiated', by
\* a job of the scheduler or by an emergency rotation of the mitigation
\* handler, eventually has the status 'completed' or 'failed'
C28_InitiatedRowsEventuallyEnd ==
  \A i \in HistoryRowNumbers : InitiatedRowAt(i) ~> EndedRowAt(i)

\* no step of the jobs or of the handler changes a row of an emergency
\* rotation once it is inserted: the row the counterexample of C28 leaves
\* 'initiated' is left so by every later tick as well
EmergencyRowsNeverChange ==
  [][\A i \in DOMAIN history :
       history[i].rotation_trigger = "emergency" =>
         i \in DOMAIN history' /\ history'[i] = history[i]]_vars

====
